---- MODULE Spec2Model ----
(***************************************************************************)
(* Model of the data layer of the stock tracking application:              *)
(*   src/src/lib/stocks.ts  (addStock, updateStock, deleteStock,            *)
(*                           incrementStock, countStocksByItemId)          *)
(*   src/src/lib/items.ts   (addItem, updateItem, deleteItem, getItemById)  *)
(*   src/src/lib/date.ts    (assertValidDateInput, dateInputToTimestamp,    *)
(*                           timestampToDateInput)                         *)
(* and of what stands on it:                                               *)
(*   src/unnamed/part_011   (uploadItemImageFile, deleteItemImageFile)      *)
(*   src/unnamed/part_000   (the items page: handleCreate, handleSaveEdit,  *)
(*                           handleDelete)                                 *)
(*   src/src/components/stocks/StockEditModal.tsx  (handleSubmit)           *)
(*   src/src/middleware.ts, src/src/app/api/auth, src/unnamed/part_012      *)
(*                          (the login routes and the gate)                *)
(* The document store is modelled as two maps from document id to          *)
(* document.  Every async function is a call; a call takes one step per    *)
(* request to the store, so that calls interleave at their awaits.  The    *)
(* synchronous code before a call's first request reads no shared state    *)
(* and is part of the step of that first request.                          *)
(*                                                                         *)
(* Strings are tuples of one-character strings ("ab" is <<"a","b">>), so   *)
(* that trim() and the date parser are computed, not assumed.  A JS number *)
(* is [int |-> n, frac |-> b]: the number n when b is FALSE, n + 0.5 when  *)
(* b is TRUE, so that Number.isInteger has something to reject.            *)
(***************************************************************************)
EXTENDS Integers, Sequences, FiniteSets, TLC

VARIABLES
    items,      \* items collection: document id -> ItemDoc
    stocks,     \* stocks collection: document id -> StockDoc (+ updateTime)
    clock,      \* the store's clock: the value serverTimestamp() resolves to
    nextItem,   \* number of item ids the store has generated so far
    nextStock,  \* number of stock ids the store has generated so far
    calls,      \* the calls issued so far, in order of issue, with their position
    budget,     \* the number of calls the clients still issue
    stocks0,    \* history: the stocks collection of the initial state
    storage,    \* the file storage: its configured bucket and its objects
    cookie,     \* the browser's cookie jar: the value of the session cookie
    env         \* the environment variables of the deployment

vars == <<items, stocks, clock, nextItem, nextStock, calls, budget, stocks0, storage, cookie, env>>

----------------------------------------------------------------------------
(* Bounds of the model *)

\* number of calls issued in one behaviour of Spec
MaxCalls == 2

\* number of calls issued in one behaviour of SpecAdjust
MaxAdjustCalls == 3

\* number of calls issued in one behaviour of SpecQuery
MaxQueryCalls == 3

\* number of conversions made in one behaviour of SpecDate
MaxDateCalls == 1

\* calls issued against the file storage and the store
MaxStorageCalls == 2

\* handlers of the items page entered
MaxPageCalls == 1

\* submits of the stock edit form and calls beside them
MaxModalCalls == 2

\* requests sent to the login routes and to the middleware
MaxAuthCalls == 2

----------------------------------------------------------------------------
(* Strings *)

null == <<"<null>">>
undefined == <<"<undefined>">>

\* the index of the first character of s at or after i that is not a space (Len(s) + 1
\* if none), and of the last one at or before i (0 if none)
RECURSIVE TrimStart(_, _)
TrimStart(s, i) == IF i <= Len(s) /\ s[i] = " " THEN TrimStart(s, i + 1) ELSE i

RECURSIVE TrimEnd(_, _)
TrimEnd(s, i) == IF i >= 1 /\ s[i] = " " THEN TrimEnd(s, i - 1) ELSE i

\* String.prototype.trim on a tuple of characters (the only whitespace used is " ")
trim(s) == SubSeq(s, TrimStart(s, 1), TrimEnd(s, Len(s)))

----------------------------------------------------------------------------
(* Numbers *)

Num(n) == [int |-> n, frac |-> FALSE]
Half(n) == [int |-> n, frac |-> TRUE]

\* Number.isInteger
IsInteger(x) == ~x.frac

\* x < 0
IsNegative(x) == x.int < 0

\* x + y
Plus(x, y) ==
    [int  |-> x.int + y.int + (IF x.frac /\ y.frac THEN 1 ELSE 0),
     frac |-> x.frac # y.frac]

----------------------------------------------------------------------------
(* Dates (src/src/lib/date.ts) *)

Digits == <<"0", "1", "2", "3", "4", "5", "6", "7", "8", "9">>

IsDigit(c) == \E i \in DOMAIN Digits : Digits[i] = c

DigitValue(c) == (CHOOSE i \in DOMAIN Digits : Digits[i] = c) - 1

\* Number(text) for a text of digits
RECURSIVE ToNumber(_)
ToNumber(text) ==
    IF text = <<>> THEN 0
    ELSE 10 * ToNumber(SubSeq(text, 1, Len(text) - 1)) + DigitValue(text[Len(text)])

\* String(n) for n >= 0
RECURSIVE NumberToString(_)
NumberToString(n) ==
    IF n < 10 THEN <<Digits[n + 1]>> ELSE NumberToString(n \div 10) \o <<Digits[(n % 10) + 1]>>

\* text.padStart(2, '0')
PadStart2(text) == IF Len(text) < 2 THEN <<"0">> \o text ELSE text

\* day number (days since 1970-01-01) of the proleptic Gregorian date y-m-d, 1 <= m <= 12
DaysFromCivil(y, m, d) ==
    LET yy  == IF m <= 2 THEN y - 1 ELSE y
        era == yy \div 400
        yoe == yy - era * 400
        mp  == IF m > 2 THEN m - 3 ELSE m + 9
        doy == (153 * mp + 2) \div 5 + d - 1
        doe == yoe * 365 + yoe \div 4 - yoe \div 100 + doy
    IN  era * 146097 + doe - 719468

\* the Gregorian date of a day number
CivilFromDays(n) ==
    LET z   == n + 719468
        era == z \div 146097
        doe == z - era * 146097
        yoe == (doe - doe \div 1460 + doe \div 36524 - doe \div 146096) \div 365
        doy == doe - (365 * yoe + yoe \div 4 - yoe \div 100)
        mp  == (5 * doy + 2) \div 153
        d   == doy - (153 * mp + 2) \div 5 + 1
        m   == IF mp < 10 THEN mp + 3 ELSE mp - 9
    IN  [year |-> yoe + era * 400 + (IF m <= 2 THEN 1 ELSE 0), month |-> m, day |-> d]

\* new Date(year, monthIndex, day): the local midnight of the day the arguments
\* normalise to, as a day number.  A year of 0..99 means 1900 + year; a month
\* index or a day out of range carries over into the next unit.
NewDate(year, monthIndex, day) ==
    LET fullYear == IF year >= 0 /\ year <= 99 THEN 1900 + year ELSE year
        ym       == fullYear + monthIndex \div 12
        mn       == monthIndex % 12
    IN  DaysFromCivil(ym, mn + 1, 1) + day - 1

\* /^\d{4}-\d{2}-\d{2}$/
MatchesDatePattern(dateInput) ==
    /\ Len(dateInput) = 10
    /\ \A i \in {1, 2, 3, 4, 6, 7, 9, 10} : IsDigit(dateInput[i])
    /\ dateInput[5] = "-"
    /\ dateInput[8] = "-"

YearOf(dateInput) == ToNumber(SubSeq(dateInput, 1, 4))
MonthOf(dateInput) == ToNumber(SubSeq(dateInput, 6, 7))
DayOf(dateInput) == ToNumber(SubSeq(dateInput, 9, 10))

\* assertValidDateInput: "ok" when it returns normally, else the error it throws
assertValidDateInput(dateInput) ==
    IF ~MatchesDatePattern(dateInput) THEN "date format"
    ELSE LET year      == YearOf(dateInput)
             month     == MonthOf(dateInput)
             day       == DayOf(dateInput)
             candidate == CivilFromDays(NewDate(year, month - 1, day))
             isSameDate ==
                 /\ candidate.year = year
                 /\ candidate.month - 1 = month - 1
                 /\ candidate.day = day
         IN  IF ~isSameDate THEN "date does not exist" ELSE "ok"

\* dateInputToTimestamp, for an input assertValidDateInput accepts: the Timestamp of
\* the local midnight, as a day number
dateInputToTimestamp(dateInput) ==
    NewDate(YearOf(dateInput), MonthOf(dateInput) - 1, DayOf(dateInput))

\* timestampToDateInput
timestampToDateInput(timestamp) ==
    LET date == CivilFromDays(timestamp)
    IN  NumberToString(date.year) \o <<"-">> \o PadStart2(NumberToString(date.month))
            \o <<"-">> \o PadStart2(NumberToString(date.day))

----------------------------------------------------------------------------
(* The document store *)

\* the n-th id the store generates for a document of the items / stocks collection
ItemDocId(n) == <<"i">> \o NumberToString(n)
StockDocId(n) == <<"s">> \o NumberToString(n)

\* an ItemDoc as addDoc writes it at store time t; updateTime is the store's own
\* version of the document (the time of its last write), not a field of the data
ItemDoc(name, imageUrl, t) ==
    [name |-> name, imageUrl |-> imageUrl, createdAt |-> t, updateTime |-> t]

\* a StockDoc as addDoc writes it at store time t (serverTimestamp() resolves to t)
StockDoc(itemId, itemNameSnapshot, expiryDate, quantity, t) ==
    [itemId           |-> itemId,
     itemNameSnapshot |-> itemNameSnapshot,
     expiryDate       |-> expiryDate,
     quantity         |-> quantity,
     createdAt        |-> t,
     updatedAt        |-> t,
     updateTime       |-> t]

\* snapshot.exists() of a document reference
Exists(collection, id) == id \in DOMAIN collection

\* the collection after addDoc / setting document id to d
WithDoc(collection, id, d) ==
    [k \in DOMAIN collection \cup {id} |-> IF k = id THEN d ELSE collection[k]]

\* the collection after deleteDoc
WithoutDoc(collection, id) == [k \in DOMAIN collection \ {id} |-> collection[k]]

\* the document after updateDoc / transaction.update with a payload at store time t:
\* the fields of the payload replace the document's, the others stay
Updated(d, payload, t) ==
    [f \in DOMAIN d |->
        IF f = "updateTime" THEN t
        ELSE IF f \in DOMAIN payload THEN payload[f]
        ELSE d[f]]

\* an object of one field, and the union of two objects (the right one wins)
Field(f, v) == [k \in {f} |-> v]
Assign(obj, more) ==
    [k \in DOMAIN obj \cup DOMAIN more |-> IF k \in DOMAIN more THEN more[k] ELSE obj[k]]

\* KeyCount taken after updatedAt has been put into the payload
KeyCountAfterTimestamp(obj) == Cardinality(DOMAIN obj \cup {"updatedAt"})

\* Object.keys(obj).length
KeyCount(obj) == Cardinality(DOMAIN obj)

----------------------------------------------------------------------------
(* Calls *)

\* a finished call: its result is "ok" or the error it threw
Finished(call, result) == [call EXCEPT !.pc = "done", !.result = result]

\* a client issues a call
Issue(call) == calls' = Append(calls, call) /\ budget' = budget - 1

\* the c-th call takes its next step
Advance(c, call) == calls' = [calls EXCEPT ![c] = call] /\ UNCHANGED budget

\* the record of a call just issued: no store request made yet.  reads and writes
\* count the requests the call has sent to the store; inFlight records how many
\* other calls were in flight when this one was issued.
NewCall(op, args) ==
    [op |-> op, args |-> args, pc |-> "start", result |-> "pending",
     reads |-> 0, writes |-> 0, local |-> <<>>, docId |-> null, readTime |-> 0,
     inFlight |-> Cardinality({c \in DOMAIN calls : calls[c].pc # "done"})]

\* the call has sent a read / a write request to the store
DidRead(call) == [call EXCEPT !.reads = @ + 1]
DidWrite(call) == [call EXCEPT !.writes = @ + 1]

CanIssue == budget > 0

\* a date input converted to a Timestamp and back, as the edit form does with a
\* stored expiry date: dateInputToTimestamp (which throws what assertValidDateInput
\* throws), then timestampToDateInput of the result
dateRoundTrip(dateInput) ==
    /\ CanIssue
    /\ LET call == NewCall("dateRoundTrip", [dateInput |-> dateInput])
       IN  IF assertValidDateInput(dateInput) # "ok"
           THEN Issue(Finished(call, assertValidDateInput(dateInput)))
           ELSE Issue(Finished([call EXCEPT
                                  !.local =
                                     [timestamp |-> dateInputToTimestamp(dateInput),
                                      dateInput |->
                                         timestampToDateInput(dateInputToTimestamp(dateInput))]],
                               "ok"))
    /\ UNCHANGED <<items, stocks, clock, nextItem, nextStock, stocks0, storage, cookie, env>>

----------------------------------------------------------------------------
(* Items (src/src/lib/items.ts) *)

ITEM_NAME_MAX_LENGTH == 100

\* the name check of addItem and updateItem: "ok" or the error thrown
ItemNameError(trimmedName) ==
    IF Len(trimmedName) = 0 THEN "item name empty"
    ELSE IF Len(trimmedName) > ITEM_NAME_MAX_LENGTH THEN "item name too long"
    ELSE "ok"

\* the null that getItemById returns for an item that does not exist
NoItem == [exists |-> FALSE]

\* getItemById: the Item read from the store, or null
getItemById(id) ==
    IF ~Exists(items, id) THEN NoItem
    ELSE [exists |-> TRUE, id |-> id, name |-> items[id].name,
          imageUrl |-> items[id].imageUrl, createdAt |-> items[id].createdAt]

\* addItem(name, imageUrl): validation, then one addDoc
addItem(name, imageUrl) ==
    /\ CanIssue
    /\ LET call               == NewCall("addItem", [name |-> name, imageUrl |-> imageUrl])
           trimmedName        == trim(name)
           normalizedImageUrl ==
               IF imageUrl # undefined /\ trim(imageUrl) # <<>> THEN trim(imageUrl) ELSE null
           id                 == ItemDocId(nextItem + 1)
       IN  IF ItemNameError(trimmedName) # "ok"
           THEN /\ Issue(Finished(call, ItemNameError(trimmedName)))
                /\ UNCHANGED <<items, nextItem, clock>>
           ELSE /\ items' = WithDoc(items, id, ItemDoc(trimmedName, normalizedImageUrl, clock))
                /\ nextItem' = nextItem + 1
                /\ clock' = clock + 1
                /\ Issue(Finished([DidWrite(call) EXCEPT !.docId = id], "ok"))
    /\ UNCHANGED <<stocks, nextStock, stocks0, storage, cookie, env>>

\* updateItemPayload without the check updates.imageUrl !== undefined: an update
\* that supplies no imageUrl writes null
updateItemPayloadAlwaysImage(id, updates) ==
    LET trimmedName == trim(updates.name)
        trimmedImageUrl ==
            IF "imageUrl" \notin DOMAIN updates \/ updates.imageUrl = null
            THEN null ELSE trim(updates.imageUrl)
        namePart  == IF "name" \in DOMAIN updates THEN Field("name", trimmedName) ELSE <<>>
        imagePart ==
            Field("imageUrl",
                  IF trimmedImageUrl # null /\ Len(trimmedImageUrl) > 0
                  THEN trimmedImageUrl ELSE null)
        payload   == Assign(namePart, imagePart)
    IN  IF trim(id) = <<>> THEN [error |-> "id empty"]
        ELSE IF "name" \in DOMAIN updates /\ ItemNameError(trimmedName) # "ok"
        THEN [error |-> ItemNameError(trimmedName)]
        ELSE IF KeyCount(payload) = 0 THEN [error |-> "no fields to update"]
        ELSE [error |-> "ok", payload |-> payload]

\* the payload updateItem builds from its updates, or the error it throws first
updateItemPayload(id, updates) ==
    LET trimmedName == trim(updates.name)
        trimmedImageUrl == IF updates.imageUrl = null THEN null ELSE trim(updates.imageUrl)
        namePart  == IF "name" \in DOMAIN updates THEN Field("name", trimmedName) ELSE <<>>
        imagePart ==
            IF "imageUrl" \in DOMAIN updates
            THEN Field("imageUrl",
                       IF trimmedImageUrl # null /\ Len(trimmedImageUrl) > 0
                       THEN trimmedImageUrl ELSE null)
            ELSE <<>>
        payload   == Assign(namePart, imagePart)
    IN  IF trim(id) = <<>> THEN [error |-> "id empty"]
        ELSE IF "name" \in DOMAIN updates /\ ItemNameError(trimmedName) # "ok"
        THEN [error |-> ItemNameError(trimmedName)]
        ELSE IF KeyCount(payload) = 0 THEN [error |-> "no fields to update"]
        ELSE [error |-> "ok", payload |-> payload]

\* updateItem carrying a new name into the snapshots of the stocks that refer to
\* the item
updateItemSynced(id, updates) ==
    /\ CanIssue
    /\ LET call  == NewCall("updateItem", [id |-> id, updates |-> updates])
           built == updateItemPayload(id, updates)
       IN  IF built.error # "ok"
           THEN /\ Issue(Finished(call, built.error))
                /\ UNCHANGED <<items, stocks, clock>>
           ELSE IF ~Exists(items, id)
           THEN /\ Issue(Finished([DidWrite(call) EXCEPT !.local = built.payload],
                                  "store: not found"))
                /\ UNCHANGED <<items, stocks, clock>>
           ELSE /\ items' = [items EXCEPT ![id] = Updated(@, built.payload, clock)]
                /\ stocks' =
                      [k \in DOMAIN stocks |->
                         IF stocks[k].itemId = id /\ "name" \in DOMAIN built.payload
                         THEN [stocks[k] EXCEPT !.itemNameSnapshot = built.payload.name]
                         ELSE stocks[k]]
                /\ clock' = clock + 1
                /\ Issue(Finished([DidWrite(call) EXCEPT !.local = built.payload], "ok"))
    /\ UNCHANGED <<nextItem, nextStock, stocks0, storage, cookie, env>>

\* updateItem(id, updates): validation, then one updateDoc, which fails on a
\* document that does not exist
updateItem(id, updates) ==
    /\ CanIssue
    /\ LET call  == NewCall("updateItem", [id |-> id, updates |-> updates])
           built == updateItemPayload(id, updates)
       IN  IF built.error # "ok"
           THEN /\ Issue(Finished(call, built.error))
                /\ UNCHANGED <<items, clock>>
           ELSE IF ~Exists(items, id)
           THEN /\ Issue(Finished([DidWrite(call) EXCEPT !.local = built.payload],
                                  "store: not found"))
                /\ UNCHANGED <<items, clock>>
           ELSE /\ items' = [items EXCEPT ![id] = Updated(@, built.payload, clock)]
                /\ clock' = clock + 1
                /\ Issue(Finished([DidWrite(call) EXCEPT !.local = built.payload], "ok"))
    /\ UNCHANGED <<stocks, nextItem, nextStock, stocks0, storage, cookie, env>>

\* deleteItem deleting, with the item, the stocks that refer to it
deleteItemCascade(id) ==
    /\ CanIssue
    /\ LET call == NewCall("deleteItem", [id |-> id])
       IN  IF trim(id) = <<>>
           THEN /\ Issue(Finished(call, "id empty"))
                /\ UNCHANGED <<items, stocks, clock>>
           ELSE /\ items' = WithoutDoc(items, id)
                /\ stocks' = [d \in {k \in DOMAIN stocks : stocks[k].itemId # id} |-> stocks[d]]
                /\ clock' = clock + 1
                /\ Issue(Finished([DidWrite(call) EXCEPT
                                      !.docId = IF Exists(items, id) THEN id ELSE null],
                                  "ok"))
    /\ UNCHANGED <<nextItem, nextStock, stocks0, storage, cookie, env>>

\* deleteItem(id): one deleteDoc, which succeeds whether or not the document exists
\* (docId records the document deleted, if there was one)
deleteItem(id) ==
    /\ CanIssue
    /\ LET call == NewCall("deleteItem", [id |-> id])
       IN  IF trim(id) = <<>>
           THEN /\ Issue(Finished(call, "id empty"))
                /\ UNCHANGED <<items, clock>>
           ELSE /\ items' = WithoutDoc(items, id)
                /\ clock' = clock + 1
                /\ Issue(Finished([DidWrite(call) EXCEPT
                                      !.docId = IF Exists(items, id) THEN id ELSE null],
                                  "ok"))
    /\ UNCHANGED <<stocks, nextItem, nextStock, stocks0, storage, cookie, env>>

----------------------------------------------------------------------------
(* Stocks (src/src/lib/stocks.ts) *)

STOCK_NAME_MAX_LENGTH == 100

\* IsValidQuantity without the check quantity < 0
IsValidQuantityIntegerOnly(quantity) == IsInteger(quantity)

\* the quantity check of addStock and updateStock
IsValidQuantity(quantity) == IsInteger(quantity) /\ ~IsNegative(quantity)

\* StockNameError without the limit on the length
StockNameErrorNoLimit(trimmedName) ==
    IF Len(trimmedName) = 0 THEN "itemName empty" ELSE "ok"

\* the free-text name check of addStock and updateStock: "ok" or the error thrown
StockNameError(trimmedName) ==
    IF Len(trimmedName) = 0 THEN "itemName empty"
    ELSE IF Len(trimmedName) > STOCK_NAME_MAX_LENGTH THEN "itemName too long"
    ELSE "ok"

\* a property of an object is present and truthy (a non-empty string)
Truthy(obj, f) == f \in DOMAIN obj /\ obj[f] # undefined /\ obj[f] # <<>>

\* resolveItemRef taking the item's id for its name
resolveItemRefIdAsName(itemId) ==
    LET item == getItemById(itemId)
    IN  IF item = NoItem THEN [error |-> "item not found"]
        ELSE [error |-> "ok", itemId |-> item.id, itemNameSnapshot |-> item.id]

\* resolveItemRef falling back to the given id when the item does not exist
resolveItemRefLenient(itemId) ==
    LET item == getItemById(itemId)
    IN  IF item = NoItem
        THEN [error |-> "ok", itemId |-> itemId, itemNameSnapshot |-> itemId]
        ELSE [error |-> "ok", itemId |-> item.id, itemNameSnapshot |-> item.name]

\* the item reference of addStock and updateStock by itemId: the item is read, and
\* the stock takes its id and its name as the read returns it; the error thrown if
\* the read returns null
resolveItemRef(itemId) ==
    LET item == getItemById(itemId)
    IN  IF item = NoItem THEN [error |-> "item not found"]
        ELSE [error |-> "ok", itemId |-> item.id, itemNameSnapshot |-> item.name]

\* addStockPrepare with the quantity validated last, after the item lookup and the
\* date conversion
addStockPrepareQuantityLast(itemRef, expiryDate, quantity) ==
    LET itemId      == trim(itemRef.itemId)
        item        == resolveItemRef(itemId)
        trimmedName == trim(itemRef.itemName)
        dateError   == assertValidDateInput(expiryDate)
        expiryTimestamp == dateInputToTimestamp(expiryDate)
    IN  IF Truthy(itemRef, "itemId")
        THEN IF Len(itemId) = 0 THEN [error |-> "itemId empty", reads |-> 0]
             ELSE IF item.error # "ok" THEN [error |-> item.error, reads |-> 1]
             ELSE IF dateError # "ok" THEN [error |-> dateError, reads |-> 1]
             ELSE IF ~IsValidQuantity(quantity) THEN [error |-> "quantity invalid", reads |-> 1]
             ELSE [error |-> "ok", reads |-> 1,
                   payload |-> [itemId |-> item.itemId,
                                itemNameSnapshot |-> item.itemNameSnapshot,
                                expiryDate |-> expiryTimestamp, quantity |-> quantity]]
        ELSE IF Truthy(itemRef, "itemName")
        THEN IF StockNameError(trimmedName) # "ok"
             THEN [error |-> StockNameError(trimmedName), reads |-> 0]
             ELSE IF dateError # "ok" THEN [error |-> dateError, reads |-> 0]
             ELSE IF ~IsValidQuantity(quantity) THEN [error |-> "quantity invalid", reads |-> 0]
             ELSE [error |-> "ok", reads |-> 0,
                   payload |-> [itemId |-> null, itemNameSnapshot |-> trimmedName,
                                expiryDate |-> expiryTimestamp, quantity |-> quantity]]
        ELSE [error |-> "itemId or itemName required", reads |-> 0]

\* addStock up to its addDoc: the error thrown first, the number of reads made on the
\* way (getItemById), and the document fields to write
addStockPrepare(itemRef, expiryDate, quantity) ==
    LET itemId      == trim(itemRef.itemId)
        item        == resolveItemRef(itemId)
        trimmedName == trim(itemRef.itemName)
        dateError   == assertValidDateInput(expiryDate)
        expiryTimestamp == dateInputToTimestamp(expiryDate)
    IN  IF ~IsValidQuantity(quantity) THEN [error |-> "quantity invalid", reads |-> 0]
        ELSE IF Truthy(itemRef, "itemId")
        THEN IF Len(itemId) = 0 THEN [error |-> "itemId empty", reads |-> 0]
             ELSE IF item.error # "ok" THEN [error |-> item.error, reads |-> 1]
             ELSE IF dateError # "ok" THEN [error |-> dateError, reads |-> 1]
             ELSE [error |-> "ok", reads |-> 1,
                   payload |-> [itemId |-> item.itemId,
                                itemNameSnapshot |-> item.itemNameSnapshot,
                                expiryDate |-> expiryTimestamp, quantity |-> quantity]]
        ELSE IF Truthy(itemRef, "itemName")
        THEN IF StockNameError(trimmedName) # "ok"
             THEN [error |-> StockNameError(trimmedName), reads |-> 0]
             ELSE IF dateError # "ok" THEN [error |-> dateError, reads |-> 0]
             ELSE [error |-> "ok", reads |-> 0,
                   payload |-> [itemId |-> null, itemNameSnapshot |-> trimmedName,
                                expiryDate |-> expiryTimestamp, quantity |-> quantity]]
        ELSE [error |-> "itemId or itemName required", reads |-> 0]

\* the store's addDoc of a stock: a new document under a new id
AddStockDoc(payload) ==
    /\ stocks' = WithDoc(stocks, StockDocId(nextStock + 1),
                         StockDoc(payload.itemId, payload.itemNameSnapshot,
                                  payload.expiryDate, payload.quantity, clock))
    /\ nextStock' = nextStock + 1
    /\ clock' = clock + 1

\* addStock(itemRef, expiryDate, quantity), issued: runs to its first error, or to
\* the addDoc request.  With an itemName no read is awaited and the addDoc follows
\* at once; with an itemId the call has awaited getItemById and the addDoc is the
\* next step (addStockWrite).
addStock(itemRef, expiryDate, quantity) ==
    /\ CanIssue
    /\ LET call == NewCall("addStock", [itemRef |-> itemRef, expiryDate |-> expiryDate,
                                         quantity |-> quantity])
           prep == addStockPrepare(itemRef, expiryDate, quantity)
           read == [call EXCEPT !.reads = prep.reads]
       IN  IF prep.error # "ok"
           THEN /\ Issue(Finished(read, prep.error))
                /\ UNCHANGED <<stocks, nextStock, clock>>
           ELSE IF prep.reads = 0
           THEN /\ AddStockDoc(prep.payload)
                /\ Issue(Finished([DidWrite(read) EXCEPT
                                      !.local = prep.payload,
                                      !.docId = StockDocId(nextStock + 1)], "ok"))
           ELSE /\ Issue([read EXCEPT !.pc = "addDoc", !.local = prep.payload,
                                        !.readTime = clock])
                /\ UNCHANGED <<stocks, nextStock, clock>>
    /\ UNCHANGED <<items, nextItem, stocks0, storage, cookie, env>>

\* the addDoc of an addStock that resolved its itemId
addStockWrite(c) ==
    /\ c \in DOMAIN calls
    /\ calls[c].op = "addStock"
    /\ calls[c].pc = "addDoc"
    /\ AddStockDoc(calls[c].local)
    /\ Advance(c, Finished([DidWrite(calls[c]) EXCEPT !.docId = StockDocId(nextStock + 1)],
                           "ok"))
    /\ UNCHANGED <<items, nextItem, stocks0, storage, cookie, env>>

\* serverTimestamp(): a placeholder the store replaces by its time when it commits
serverTimestamp == <<"<serverTimestamp>">>

\* updateStockPayload without updatedAt
updateStockPayloadNoTimestamp(fields) == fields

\* the payload of updateStock: the changed fields, and updatedAt
updateStockPayload(fields) == Assign(fields, Field("updatedAt", serverTimestamp))

\* a payload as the store commits it at time t: the placeholder, which only
\* updatedAt holds, becomes the store's time
Resolved(payload, t) ==
    [f \in DOMAIN payload |-> IF f = "updatedAt" THEN t ELSE payload[f]]

\* updateStock up to its updateDoc: the error thrown first, the number of reads made
\* on the way (getItemById), and the payload
updateStockPrepare(id, updates) ==
    LET hasItemId     == "itemId" \in DOMAIN updates
        hasItemName   == "itemName" \in DOMAIN updates
        hasExpiryDate == "expiryDate" \in DOMAIN updates
        hasQuantity   == "quantity" \in DOMAIN updates
        reads         == IF hasItemId THEN 1 ELSE 0
        trimmedItemId == trim(updates.itemId)
        item          == resolveItemRef(trimmedItemId)
        trimmedName   == trim(updates.itemName)
        dateError     == assertValidDateInput(updates.expiryDate)
        p1 == IF hasItemId
              THEN [itemId |-> item.itemId, itemNameSnapshot |-> item.itemNameSnapshot]
              ELSE <<>>
        p2 == IF hasItemName
              THEN Assign(p1, [itemId |-> null, itemNameSnapshot |-> trimmedName]) ELSE p1
        p3 == IF hasExpiryDate
              THEN Assign(p2, Field("expiryDate", dateInputToTimestamp(updates.expiryDate)))
              ELSE p2
        p4 == IF hasQuantity THEN Assign(p3, Field("quantity", updates.quantity)) ELSE p3
    IN  IF trim(id) = <<>> THEN [error |-> "id empty", reads |-> 0]
        ELSE IF hasItemId /\ Len(trimmedItemId) = 0
        THEN [error |-> "itemId empty", reads |-> 0]
        ELSE IF hasItemId /\ item.error # "ok" THEN [error |-> item.error, reads |-> 1]
        ELSE IF hasItemName /\ StockNameError(trimmedName) # "ok"
        THEN [error |-> StockNameError(trimmedName), reads |-> reads]
        ELSE IF hasExpiryDate /\ dateError # "ok" THEN [error |-> dateError, reads |-> reads]
        ELSE IF hasQuantity /\ ~IsValidQuantity(updates.quantity)
        THEN [error |-> "quantity invalid", reads |-> reads]
        ELSE IF KeyCount(p4) = 0 THEN [error |-> "no fields to update", reads |-> reads]
        ELSE [error |-> "ok", reads |-> reads, payload |-> updateStockPayload(p4)]

\* the result of the store's updateDoc / transaction.update on document id: it
\* fails on a document that does not exist
UpdateDocResult(collection, id) == IF Exists(collection, id) THEN "ok" ELSE "store: not found"

\* UpdateStockDoc creating the document when it does not exist (a set with merge)
UpdateStockDocUpsert(id, payload) ==
    /\ stocks' = IF Exists(stocks, id)
                 THEN [stocks EXCEPT ![id] = Updated(@, Resolved(payload, clock), clock)]
                 ELSE WithDoc(stocks, id,
                              Assign(Resolved(payload, clock), Field("updateTime", clock)))
    /\ clock' = clock + 1

\* the store's updateDoc of a stock: the payload's fields replace the document's
UpdateStockDoc(id, payload) ==
    IF ~Exists(stocks, id)
    THEN UNCHANGED <<stocks, clock>>
    ELSE /\ stocks' = [stocks EXCEPT ![id] = Updated(@, Resolved(payload, clock), clock)]
         /\ clock' = clock + 1

\* updateStock(id, updates), issued: runs to its first error, or to the updateDoc
\* request.  Without an itemId no read is awaited and the updateDoc follows at once;
\* with an itemId the call has awaited getItemById and the updateDoc is the next
\* step (updateStockWrite).
updateStock(id, updates) ==
    /\ CanIssue
    /\ LET call == NewCall("updateStock", [id |-> id, updates |-> updates])
           prep == updateStockPrepare(id, updates)
           read == [call EXCEPT !.reads = prep.reads]
       IN  IF prep.error # "ok"
           THEN /\ Issue(Finished(read, prep.error))
                /\ UNCHANGED <<stocks, clock>>
           ELSE IF prep.reads = 0
           THEN /\ UpdateStockDoc(id, prep.payload)
                /\ Issue(Finished([DidWrite(read) EXCEPT !.local = prep.payload],
                                  UpdateDocResult(stocks, id)))
           ELSE /\ Issue([read EXCEPT !.pc = "updateDoc", !.local = prep.payload,
                                        !.readTime = clock])
                /\ UNCHANGED <<stocks, clock>>
    /\ UNCHANGED <<items, nextItem, nextStock, stocks0, storage, cookie, env>>

\* updateStockWrite refused when the stock was written since the call read the Item
updateStockWriteChecked(c) ==
    /\ c \in DOMAIN calls
    /\ calls[c].op = "updateStock"
    /\ calls[c].pc = "updateDoc"
    /\ IF Exists(stocks, calls[c].args.id)
          /\ stocks[calls[c].args.id].updateTime >= calls[c].readTime
       THEN /\ UNCHANGED <<stocks, clock>>
            /\ Advance(c, Finished(DidWrite(calls[c]), "store: conflict"))
       ELSE /\ UpdateStockDoc(calls[c].args.id, calls[c].local)
            /\ Advance(c, Finished(DidWrite(calls[c]),
                                   UpdateDocResult(stocks, calls[c].args.id)))
    /\ UNCHANGED <<items, nextItem, nextStock, stocks0, storage, cookie, env>>

\* the updateDoc of an updateStock that resolved its itemId
updateStockWrite(c) ==
    /\ c \in DOMAIN calls
    /\ calls[c].op = "updateStock"
    /\ calls[c].pc = "updateDoc"
    /\ UpdateStockDoc(calls[c].args.id, calls[c].local)
    /\ Advance(c, Finished(DidWrite(calls[c]), UpdateDocResult(stocks, calls[c].args.id)))
    /\ UNCHANGED <<items, nextItem, nextStock, stocks0, storage, cookie, env>>

\* deleteStock(id): one deleteDoc, which succeeds whether or not the document exists
deleteStock(id) ==
    /\ CanIssue
    /\ LET call == NewCall("deleteStock", [id |-> id])
       IN  IF trim(id) = <<>>
           THEN /\ Issue(Finished(call, "id empty"))
                /\ UNCHANGED <<stocks, clock>>
           ELSE /\ stocks' = WithoutDoc(stocks, id)
                /\ clock' = clock + 1
                /\ Issue(Finished(DidWrite(call), "ok"))
    /\ UNCHANGED <<items, nextItem, nextStock, stocks0, storage, cookie, env>>

\* incrementStockCheck without the check delta === 0
incrementStockCheckAllowsZero(id, delta) ==
    IF trim(id) = <<>> THEN "id empty"
    ELSE IF ~IsInteger(delta) THEN "delta invalid"
    ELSE "ok"

\* the checks of incrementStock before runTransaction: "ok" or the error thrown
incrementStockCheck(id, delta) ==
    IF trim(id) = <<>> THEN "id empty"
    ELSE IF ~IsInteger(delta) \/ delta = Num(0) THEN "delta invalid"
    ELSE "ok"

\* nextQuantityError without the check nextQuantity < 0
nextQuantityErrorNoFloor(currentQuantity, delta) ==
    IF ~IsInteger(currentQuantity) \/ IsNegative(currentQuantity)
    THEN "stored quantity invalid"
    ELSE "ok"

\* nextQuantityError with nextQuantity <= 0 for nextQuantity < 0
nextQuantityErrorStrict(currentQuantity, delta) ==
    IF ~IsInteger(currentQuantity) \/ IsNegative(currentQuantity)
    THEN "stored quantity invalid"
    ELSE IF Plus(currentQuantity, delta).int <= 0 THEN "quantity would be negative"
    ELSE "ok"

\* the decision of the transaction body on the quantity it read: "ok" or the error thrown
nextQuantityError(currentQuantity, delta) ==
    IF ~IsInteger(currentQuantity) \/ IsNegative(currentQuantity)
    THEN "stored quantity invalid"
    ELSE IF IsNegative(Plus(currentQuantity, delta)) THEN "quantity would be negative"
    ELSE "ok"

\* transactionBody taking a stock that does not exist for one of quantity 0
transactionBodyMissingAsZero(call) ==
    LET id       == call.args.id
        read     == DidRead(call)
        quantity == IF Exists(stocks, id) THEN stocks[id].quantity ELSE Num(0)
        error    == nextQuantityError(quantity, call.args.delta)
    IN  IF error # "ok" THEN Finished(read, error)
        ELSE [read EXCEPT
                !.pc = "commit",
                !.readTime = IF Exists(stocks, id) THEN stocks[id].updateTime ELSE 0,
                !.local = [quantity  |-> Plus(quantity, call.args.delta),
                           updatedAt |-> serverTimestamp]]

\* one run of the transaction body of incrementStock for call: transaction.get,
\* the checks, and the buffered transaction.update.  An error thrown by the body
\* ends the transaction; otherwise the commit is the next step.
transactionBody(call) ==
    LET id       == call.args.id
        read     == DidRead(call)
        snapshot == stocks[id]
        error    == nextQuantityError(snapshot.quantity, call.args.delta)
    IN  IF ~Exists(stocks, id) THEN Finished(read, "stock not found")
        ELSE IF error # "ok" THEN Finished(read, error)
        ELSE [read EXCEPT
                !.pc = "commit",
                !.readTime = snapshot.updateTime,
                !.local = [quantity  |-> Plus(snapshot.quantity, call.args.delta),
                           updatedAt |-> serverTimestamp]]

\* incrementStock(id, delta), issued: the checks, then the first run of the
\* transaction body
incrementStock(id, delta) ==
    /\ CanIssue
    /\ LET call == NewCall("incrementStock", [id |-> id, delta |-> delta])
       IN  IF incrementStockCheck(id, delta) # "ok"
           THEN Issue(Finished(call, incrementStockCheck(id, delta)))
           ELSE Issue(transactionBody(call))
    /\ UNCHANGED <<items, stocks, clock, nextItem, nextStock, stocks0, storage, cookie, env>>

\* CanCommit without the comparison of versions: a plain read followed by a write
CanCommitWithoutVersion(call) == Exists(stocks, call.args.id)

\* the store commits a transaction only if the document it read has not been
\* written (or deleted) since the read
CanCommit(call) ==
    /\ Exists(stocks, call.args.id)
    /\ stocks[call.args.id].updateTime = call.readTime

\* the commit of the transaction of an incrementStock call succeeds: quantity and
\* updatedAt are written in one write
transactionCommit(c) ==
    /\ c \in DOMAIN calls
    /\ calls[c].op = "incrementStock"
    /\ calls[c].pc = "commit"
    /\ CanCommit(calls[c])
    /\ UpdateStockDoc(calls[c].args.id, calls[c].local)
    /\ Advance(c, Finished(DidWrite(calls[c]), UpdateDocResult(stocks, calls[c].args.id)))
    /\ UNCHANGED <<items, nextItem, nextStock, stocks0, storage, cookie, env>>

\* transactionRetry applying the refused write before the body runs again
transactionRetryAfterWrite(c) ==
    /\ c \in DOMAIN calls
    /\ calls[c].op = "incrementStock"
    /\ calls[c].pc = "commit"
    /\ ~CanCommit(calls[c])
    /\ UpdateStockDoc(calls[c].args.id, calls[c].local)
    /\ Advance(c, transactionBody(calls[c]))
    /\ UNCHANGED <<items, nextItem, nextStock, stocks0, storage, cookie, env>>

\* the commit is refused because the document changed since the read: the store
\* client runs the transaction body again
transactionRetry(c) ==
    /\ c \in DOMAIN calls
    /\ calls[c].op = "incrementStock"
    /\ calls[c].pc = "commit"
    /\ ~CanCommit(calls[c])
    /\ Advance(c, transactionBody(calls[c]))
    /\ UNCHANGED <<items, stocks, clock, nextItem, nextStock, stocks0, storage, cookie, env>>

----------------------------------------------------------------------------
(* Queries (listItems, listStocks, countStocksByItemId) *)

\* the characters the model uses, in the order of their character codes
Alphabet ==
    <<" ", "-", "0", "1", "2", "3", "4", "5", "6", "7", "8", "9",
      "a", "b", "c", "i", "s", "u", "x">>

CharCode(c) == CHOOSE i \in DOMAIN Alphabet : Alphabet[i] = c

\* s < t for two strings, as the store orders string values: by the first
\* character that differs, a proper prefix first
StringLess(s, t) ==
    \E k \in 1..(Len(t)) :
        /\ k <= Len(s) + 1
        /\ \A j \in 1..(k - 1) : s[j] = t[j]
        /\ \/ k = Len(s) + 1
           \/ CharCode(s[k]) < CharCode(t[k])

\* v < w for two values of a field as the store orders them: names are strings,
\* the other fields ordered by are timestamps
ValueLess(field, v, w) == IF field = "name" THEN StringLess(v, w) ELSE v < w

\* orderBy(field, direction) on a collection: the ids of its documents in the order
\* of the field's value, documents of equal value in the order of their ids
orderBy(collection, field, direction) ==
    LET ids == DOMAIN collection
        n   == Cardinality(ids)
        Before(a, b) ==
            LET lo == IF direction = "asc" THEN a ELSE b
                hi == IF direction = "asc" THEN b ELSE a
            IN  \/ ValueLess(field, collection[lo][field], collection[hi][field])
                \/ /\ collection[lo][field] = collection[hi][field]
                   /\ StringLess(lo, hi)
    IN  CHOOSE order \in [1..n -> ids] :
            \A i, j \in 1..n : i < j => Before(order[i], order[j])

\* where(field, '==', value) on a collection: the ids of the documents that match
where(collection, field, value) == {id \in DOMAIN collection : collection[id][field] = value}

\* toItem: the Item of a stored document, or the error thrown for malformed data
toItem(id, data) ==
    IF trim(data.name) = <<>> THEN [error |-> "items name invalid"]
    ELSE [error |-> "ok", id |-> id, name |-> data.name, imageUrl |-> data.imageUrl,
          createdAt |-> data.createdAt]

\* toStock: the Stock of a stored document, or the error thrown for malformed data
toStock(id, data) ==
    IF trim(data.itemNameSnapshot) = <<>> THEN [error |-> "stocks itemNameSnapshot invalid"]
    ELSE IF ~IsInteger(data.quantity) \/ IsNegative(data.quantity)
    THEN [error |-> "stocks quantity invalid"]
    ELSE [error |-> "ok", id |-> id, itemId |-> data.itemId,
          itemNameSnapshot |-> data.itemNameSnapshot, expiryDate |-> data.expiryDate,
          quantity |-> data.quantity, createdAt |-> data.createdAt,
          updatedAt |-> data.updatedAt]

\* the query of listItems sorted by the time of creation
listItemsQueryByCreatedAt == orderBy(items, "createdAt", "asc")

\* the query of listItems
listItemsQuery == orderBy(items, "name", "asc")

\* the query of listStocks
listStocksQuery == orderBy(stocks, "expiryDate", "asc")

\* the result of a list call: the rows of the documents in the order of the query,
\* or the first error a conversion throws
ListResult(call, rows) ==
    IF \E i \in DOMAIN rows : rows[i].error # "ok"
    THEN Finished(DidRead(call),
                  rows[CHOOSE i \in DOMAIN rows :
                          rows[i].error # "ok"
                          /\ \A j \in 1..(i - 1) : rows[j].error = "ok"].error)
    ELSE Finished([DidRead(call) EXCEPT !.local = rows], "ok")

\* listItems(): one getDocs of the query
listItems ==
    /\ CanIssue
    /\ LET order == listItemsQuery
       IN  Issue(ListResult(NewCall("listItems", <<>>),
                            [i \in DOMAIN order |-> toItem(order[i], items[order[i]])]))
    /\ UNCHANGED <<items, stocks, clock, nextItem, nextStock, stocks0, storage, cookie, env>>

\* listStocks(): one getDocs of the query
listStocks ==
    /\ CanIssue
    /\ LET order == listStocksQuery
       IN  Issue(ListResult(NewCall("listStocks", <<>>),
                            [i \in DOMAIN order |-> toStock(order[i], stocks[order[i]])]))
    /\ UNCHANGED <<items, stocks, clock, nextItem, nextStock, stocks0, storage, cookie, env>>

\* the query of countStocksByItemId without its filter
countQueryUnfiltered(itemId) == DOMAIN stocks

\* the query of countStocksByItemId
countQuery(itemId) == where(stocks, "itemId", itemId)

\* countStocksByItemId(itemId): one getCountFromServer of the query
countStocksByItemId(itemId) ==
    /\ CanIssue
    /\ LET call == NewCall("countStocksByItemId", [itemId |-> itemId])
       IN  IF trim(itemId) = <<>>
           THEN Issue(Finished(call, "itemId empty"))
           ELSE Issue(Finished([DidRead(call) EXCEPT
                                   !.local = [count |-> Cardinality(countQuery(itemId))]],
                               "ok"))
    /\ UNCHANGED <<items, stocks, clock, nextItem, nextStock, stocks0, storage, cookie, env>>

----------------------------------------------------------------------------
(* Item images in the file storage (src/unnamed/part_011) *)

MAX_ITEM_IMAGE_BYTES == 5 * 1024 * 1024

FirebaseStorageApp == <<".", "f", "i", "r", "e", "b", "a", "s", "e", "s", "t", "o", "r", "a", "g", "e", ".", "a", "p", "p">>
AppspotCom == <<".", "a", "p", "p", "s", "p", "o", "t", ".", "c", "o", "m">>

\* the name of the project's bucket without its suffix
ProjectBucket == <<"p">>

\* the file storage configured with a bucket, holding no object
EmptyStorage(bucketName) == [bucketName |-> bucketName, objects |-> {}]

\* s.endsWith(suffix)
endsWith(s, suffix) ==
    /\ Len(s) >= Len(suffix)
    /\ SubSeq(s, Len(s) - Len(suffix) + 1, Len(s)) = suffix

\* s.replace(/suffix$/, replacement), for an s that ends with suffix
replaceSuffix(s, suffix, replacement) == SubSeq(s, 1, Len(s) - Len(suffix)) \o replacement

\* resolveFallbackBucketName: the bucket of the other naming scheme, or null
resolveFallbackBucketName(bucketName) ==
    IF endsWith(bucketName, FirebaseStorageApp)
    THEN replaceSuffix(bucketName, FirebaseStorageApp, AppspotCom)
    ELSE IF endsWith(bucketName, AppspotCom)
    THEN replaceSuffix(bucketName, AppspotCom, FirebaseStorageApp)
    ELSE null

\* getFirebaseStorageBucketName(): the bucket the application is configured with
getFirebaseStorageBucketName == storage.bucketName

\* getFirebaseStorage(bucketName?): the storage of the named bucket, of the
\* configured bucket when no name is given (a storage is modelled by its bucket)
getFirebaseStorage(bucketName) ==
    IF bucketName = undefined THEN getFirebaseStorageBucketName ELSE bucketName

\* ref(storage, path): the place of an object
storageRef(bucket, path) == <<bucket, path>>

\* the download URL of an object: it names the bucket and the path
DownloadUrl(place) == place[1] \o <<"/">> \o place[2]

\* the file storage with one more object, and with one object less
WithObject(place) == [storage EXCEPT !.objects = @ \cup {place}]
WithoutObject(place) == [storage EXCEPT !.objects = @ \ {place}]

\* validateItemImageFile: "ok" or the error thrown
validateItemImageFile(file) ==
    IF ~file.isImage THEN "not an image file"
    ELSE IF file.size > MAX_ITEM_IMAGE_BYTES THEN "image larger than 5MB"
    ELSE "ok"

SafeCharacters == {"a", "b", "c", "0", "1", "_", ".", "-"}

\* file.name.replace(/[^a-zA-Z0-9_.-]/g, '_')
safeFileName(name) == [i \in DOMAIN name |-> IF name[i] \in SafeCharacters THEN name[i] ELSE "_"]

\* the path of a new image: a token no earlier upload had (Date.now() and
\* Math.random()), here the number n of the call, then the safe file name
NewImagePath(file, n) ==
    <<"i", "t", "e", "m", "s", "/">> \o NumberToString(n) \o <<"-">>
        \o safeFileName(file.name)

\* the error codes after which uploadItemImageFile tries the fallback bucket
FallbackCodes ==
    {"storage/retry-limit-exceeded", "storage/bucket-not-found", "storage/no-default-bucket"}

\* toFriendlyUploadError: the error thrown for a failed upload
toFriendlyUploadError(code) ==
    IF code = "storage/retry-limit-exceeded" THEN "image upload timed out"
    ELSE IF code \in {"storage/bucket-not-found", "storage/no-default-bucket"}
    THEN "storage bucket setting invalid"
    ELSE code

\* what the storage service answers to an uploadBytes, a getDownloadURL, a deleteObject
UploadOutcomes == {"ok", "storage/unauthorized"} \cup FallbackCodes
DownloadUrlOutcomes == {"ok", "storage/unauthorized"}
DeleteOutcomes == {"ok", "storage/unauthorized"}

\* the call of uploadItemImageFile(file) as it stands at its first await, being the
\* n-th call: the validation, the path, and the uploadBytes to the configured
\* bucket sent (writes counts the uploadBytes requests sent, failed the requests
\* that the storage answered with an error)
uploadItemImageFileCall(file, n) ==
    LET call == NewCall("uploadItemImageFile", [file |-> file])
    IN  IF validateItemImageFile(file) # "ok"
        THEN Finished(call, validateItemImageFile(file))
        ELSE [call EXCEPT
                !.pc = "uploadBytes",
                !.writes = 1,
                !.local = [imagePath  |-> NewImagePath(file, n),
                           bucket     |-> getFirebaseStorage(undefined),
                           firstError |-> null,
                           failed     |-> 0]]

\* uploadItemImageFile(file), issued
uploadItemImageFile(file) ==
    /\ CanIssue
    /\ Issue(uploadItemImageFileCall(file, Len(calls) + 1))
    /\ UNCHANGED <<items, stocks, clock, nextItem, nextStock, stocks0, storage, cookie, env>>

\* uploadBytesSettled trying the fallback bucket after every error
uploadBytesSettledAnyCode(c, outcome) ==
    /\ c \in DOMAIN calls
    /\ calls[c].op = "uploadItemImageFile"
    /\ calls[c].pc = "uploadBytes"
    /\ LET fallbackBucketName == resolveFallbackBucketName(getFirebaseStorageBucketName)
       IN  IF outcome = "ok"
           THEN /\ storage' = WithObject(storageRef(calls[c].local.bucket, calls[c].local.imagePath))
                /\ Advance(c, [DidRead(calls[c]) EXCEPT !.pc = "getDownloadURL"])
           ELSE /\ IF fallbackBucketName # null
                   THEN Advance(c, [DidWrite(calls[c]) EXCEPT
                                      !.pc = "fallbackUploadBytes",
                                      !.local.bucket = getFirebaseStorage(fallbackBucketName),
                                      !.local.firstError = outcome,
                                      !.local.failed = @ + 1])
                   ELSE Advance(c, Finished([calls[c] EXCEPT !.local.failed = @ + 1],
                                            toFriendlyUploadError(outcome)))
                /\ UNCHANGED storage
    /\ UNCHANGED <<items, stocks, clock, nextItem, nextStock, stocks0, cookie, env>>

\* the uploadBytes to the configured bucket is settled: on success the
\* getDownloadURL is sent; on a failure with one of the fallback codes, and a
\* fallback bucket to try, the uploadBytes to the fallback bucket is sent;
\* otherwise the call throws
uploadBytesSettled(c, outcome) ==
    /\ c \in DOMAIN calls
    /\ calls[c].op = "uploadItemImageFile"
    /\ calls[c].pc = "uploadBytes"
    /\ LET fallbackBucketName == resolveFallbackBucketName(getFirebaseStorageBucketName)
       IN  IF outcome = "ok"
           THEN /\ storage' = WithObject(storageRef(calls[c].local.bucket, calls[c].local.imagePath))
                /\ Advance(c, [DidRead(calls[c]) EXCEPT !.pc = "getDownloadURL"])
           ELSE /\ IF outcome \in FallbackCodes /\ fallbackBucketName # null
                   THEN Advance(c, [DidWrite(calls[c]) EXCEPT
                                      !.pc = "fallbackUploadBytes",
                                      !.local.bucket = getFirebaseStorage(fallbackBucketName),
                                      !.local.firstError = outcome,
                                      !.local.failed = @ + 1])
                   ELSE Advance(c, Finished([calls[c] EXCEPT !.local.failed = @ + 1],
                                            toFriendlyUploadError(outcome)))
                /\ UNCHANGED storage
    /\ UNCHANGED <<items, stocks, clock, nextItem, nextStock, stocks0, cookie, env>>

\* the uploadBytes to the fallback bucket is settled: on success the getDownloadURL
\* is sent; on a failure the call throws the first error
fallbackUploadBytesSettled(c, outcome) ==
    /\ c \in DOMAIN calls
    /\ calls[c].op = "uploadItemImageFile"
    /\ calls[c].pc = "fallbackUploadBytes"
    /\ IF outcome = "ok"
       THEN /\ storage' = WithObject(storageRef(calls[c].local.bucket, calls[c].local.imagePath))
            /\ Advance(c, [DidRead(calls[c]) EXCEPT !.pc = "fallbackGetDownloadURL"])
       ELSE /\ Advance(c, Finished([calls[c] EXCEPT !.local.failed = @ + 1],
                                   toFriendlyUploadError(calls[c].local.firstError)))
            /\ UNCHANGED storage
    /\ UNCHANGED <<items, stocks, clock, nextItem, nextStock, stocks0, cookie, env>>

\* the getDownloadURL is settled: the call returns the image reference, the url
\* being the place of the object (docId holds the reference returned); on a
\* failure it throws the storage's error, after a fallback the first error
getDownloadURLSettled(c, outcome) ==
    /\ c \in DOMAIN calls
    /\ calls[c].op = "uploadItemImageFile"
    /\ calls[c].pc \in {"getDownloadURL", "fallbackGetDownloadURL"}
    /\ IF outcome = "ok"
       THEN Advance(c, Finished([calls[c] EXCEPT
                                   !.docId = [imageUrl  |-> DownloadUrl(storageRef(calls[c].local.bucket,
                                                                            calls[c].local.imagePath)),
                                              imagePath |-> calls[c].local.imagePath]],
                                "ok"))
       ELSE Advance(c, Finished([calls[c] EXCEPT !.local.failed = @ + 1],
                                IF calls[c].pc = "getDownloadURL" THEN outcome
                                ELSE toFriendlyUploadError(calls[c].local.firstError)))
    /\ UNCHANGED <<items, stocks, clock, nextItem, nextStock, stocks0, storage, cookie, env>>

\* what deleteObject answers for a place: an object that is not there cannot be
\* deleted
DeleteOutcomesAt(place) ==
    IF place \in storage.objects THEN DeleteOutcomes ELSE {"storage/object-not-found"}

\* the deleteObject of deleteItemImageFile: the object of the path in the
\* configured bucket, and what the storage answers
deleteObject(imagePath, outcome) ==
    LET place == storageRef(getFirebaseStorage(undefined), imagePath)
    IN  /\ outcome \in DeleteOutcomesAt(place)
        /\ storage' = IF outcome = "ok" THEN WithoutObject(place) ELSE storage

\* deleteItemImageFile(imagePath): nothing for a blank path, else one deleteObject
\* of the path in the configured bucket
deleteItemImageFile(imagePath, outcome) ==
    /\ CanIssue
    /\ LET call == NewCall("deleteItemImageFile", [imagePath |-> imagePath])
       IN  IF trim(imagePath) = <<>>
           THEN /\ outcome = "ok"
                /\ Issue(Finished(call, "ok"))
                /\ UNCHANGED storage
           ELSE /\ deleteObject(imagePath, outcome)
                /\ Issue(Finished([DidWrite(call) EXCEPT
                                      !.local = [bucket |-> getFirebaseStorage(undefined)]],
                                  outcome))
    /\ UNCHANGED <<items, stocks, clock, nextItem, nextStock, stocks0, cookie, env>>

----------------------------------------------------------------------------
(* The items page (src/unnamed/part_000) *)

\* no file chosen in the form, and the reference of no image
NoFile == [exists |-> FALSE]
NoImage == [imageUrl |-> null, imagePath |-> null]

\* what the store answers to a request it could carry out
StoreAnswers == {"ok", "store: unavailable"}

\* an ItemDoc with the reference of its image, as addDoc writes it at store time t
ItemDocWithImage(name, image, t) ==
    Assign(ItemDoc(name, image.imageUrl, t), Field("imagePath", image.imagePath))

\* the state of a handler of the page: the call it awaits (sub), the image it
\* uploaded, the answer of its request to the items collection (lib), the error
\* its catch block caught (thrown), the message it shows, the answer to the
\* deleteObject of its cleanup (cleanup) and of the previous image (oldImage),
\* the count it read and the user's answer to the confirmation
HandlerLocal ==
    [sub |-> 0, uploadedImage |-> NoImage, lib |-> "none", thrown |-> "none",
     message |-> "none", cleanup |-> "none", oldImage |-> "none",
     refCount |-> 0, shouldDelete |-> FALSE]

\* the record of a handler just entered
Handler(op, args) == [NewCall(op, args) EXCEPT !.local = HandlerLocal]

\* the handler enters, awaiting uploadItemImageFile(file) when a file is chosen
EnterUploading(handler, file) ==
    /\ calls' = calls \o << [handler EXCEPT !.pc = "uploadItemImageFile",
                                            !.local.sub = Len(calls) + 2],
                            uploadItemImageFileCall(file, Len(calls) + 2) >>
    /\ budget' = budget - 1

\* the call a handler awaits has settled
Settled(h) == calls[calls[h].local.sub].pc = "done"

\* addItem(name, image) as the page calls it: what it answers, and what it does to
\* the store
addItemResult(name, answer) ==
    IF ItemNameError(trim(name)) # "ok" THEN ItemNameError(trim(name)) ELSE answer
addItemEffect(name, image, result) ==
    IF result = "ok"
    THEN /\ items' = WithDoc(items, ItemDocId(nextItem + 1),
                             ItemDocWithImage(trim(name), image, clock))
         /\ nextItem' = nextItem + 1
         /\ clock' = clock + 1
    ELSE UNCHANGED <<items, nextItem, clock>>

\* updateItem(id, updates) as the page calls it, updates carrying imagePath with
\* imageUrl: what it answers, and what it does to the store
updateItemResult(id, updates, answer) ==
    LET built == updateItemPayload(id, updates)
    IN  IF built.error # "ok" THEN built.error
        ELSE IF ~Exists(items, id) THEN "store: not found"
        ELSE answer
updateItemEffect(id, updates, result) ==
    LET built     == updateItemPayload(id, updates)
        imagePath == IF "imagePath" \in DOMAIN updates
                     THEN Field("imagePath", updates.imagePath) ELSE <<>>
    IN  IF result = "ok"
        THEN /\ items' = [items EXCEPT
                            ![id] = Updated(@, Assign(built.payload, imagePath), clock)]
             /\ clock' = clock + 1
        ELSE UNCHANGED <<items, clock>>

\* deleteItem(id) as the page calls it
deleteItemResult(id, answer) == IF trim(id) = <<>> THEN "id empty" ELSE answer
deleteItemEffect(id, result) ==
    IF result = "ok"
    THEN items' = WithoutDoc(items, id) /\ clock' = clock + 1
    ELSE UNCHANGED <<items, clock>>

\* handleCreate after addItem answered: loadItems next, or the catch block, which
\* cleans up an uploaded image first
handleCreateAfterAddItem(handler, result) ==
    LET answered == [handler EXCEPT !.local.lib = result]
    IN  IF result = "ok" THEN [answered EXCEPT !.pc = "loadItems"]
        ELSE IF handler.local.uploadedImage # NoImage
        THEN [answered EXCEPT !.pc = "cleanup", !.local.thrown = result]
        ELSE Finished([answered EXCEPT !.local.thrown = result,
                                       !.local.message = result], result)

\* handleCreate(payload), entered: uploadItemImageFile when a file is chosen, else
\* addItem at once
handleCreate(payload) ==
    /\ CanIssue
    /\ LET handler == Handler("handleCreate", payload)
       IN  IF payload.imageFile # NoFile
           THEN /\ EnterUploading(handler, payload.imageFile)
                /\ UNCHANGED <<items, nextItem, clock>>
           ELSE \E answer \in StoreAnswers :
                   LET result == addItemResult(payload.name, answer)
                   IN  /\ addItemEffect(payload.name, NoImage, result)
                       /\ Issue(handleCreateAfterAddItem(handler, result))
    /\ UNCHANGED <<stocks, nextStock, stocks0, storage, cookie, env>>

\* handleCreate after uploadItemImageFile settled: its error caught, or addItem
\* with the uploaded image
handleCreateUploaded(h, answer) ==
    /\ h \in DOMAIN calls
    /\ calls[h].op = "handleCreate"
    /\ calls[h].pc = "uploadItemImageFile"
    /\ Settled(h)
    /\ LET upload == calls[calls[h].local.sub]
       IN  IF upload.result # "ok"
           THEN /\ Advance(h, Finished([calls[h] EXCEPT !.local.thrown = upload.result,
                                                        !.local.message = upload.result],
                                       upload.result))
                /\ UNCHANGED <<items, nextItem, clock>>
           ELSE LET handler == [calls[h] EXCEPT !.local.uploadedImage = upload.docId]
                    result  == addItemResult(calls[h].args.name, answer)
                IN  /\ addItemEffect(calls[h].args.name, upload.docId, result)
                    /\ Advance(h, handleCreateAfterAddItem(handler, result))
    /\ UNCHANGED <<stocks, nextStock, stocks0, storage, cookie, env>>

\* the catch block of handleCreate letting a failure of its cleanup escape: the
\* error of deleteItemImageFile is thrown in place of the caught one
handleCreateCleanupThrowing(h, outcome) ==
    /\ h \in DOMAIN calls
    /\ calls[h].op = "handleCreate"
    /\ calls[h].pc = "cleanup"
    /\ deleteObject(calls[h].local.uploadedImage.imagePath, outcome)
    /\ Advance(h, IF outcome = "ok"
                  THEN Finished([calls[h] EXCEPT !.local.cleanup = outcome,
                                                 !.local.message = calls[h].local.thrown],
                                calls[h].local.thrown)
                  ELSE Finished([calls[h] EXCEPT !.local.cleanup = outcome], outcome))
    /\ UNCHANGED <<items, stocks, clock, nextItem, nextStock, stocks0, cookie, env>>

\* the catch block of handleCreate with an uploaded image: deleteItemImageFile of
\* it, whose failure is swallowed; then the message of the caught error is shown
\* and the caught error thrown again
handleCreateCleanup(h, outcome) ==
    /\ h \in DOMAIN calls
    /\ calls[h].op = "handleCreate"
    /\ calls[h].pc = "cleanup"
    /\ deleteObject(calls[h].local.uploadedImage.imagePath, outcome)
    /\ Advance(h, Finished([calls[h] EXCEPT !.local.cleanup = outcome,
                                            !.local.message = calls[h].local.thrown],
                           calls[h].local.thrown))
    /\ UNCHANGED <<items, stocks, clock, nextItem, nextStock, stocks0, cookie, env>>

\* loadItems after a handler's success: one listItems, whose failure loadItems
\* catches itself
loadItems(h) ==
    /\ h \in DOMAIN calls
    /\ calls[h].pc = "loadItems"
    /\ Advance(h, Finished(calls[h], "ok"))
    /\ UNCHANGED <<items, stocks, clock, nextItem, nextStock, stocks0, storage, cookie, env>>

\* an image path that an if of the page takes as present
HasImagePath(imagePath) == imagePath # null /\ imagePath # undefined /\ imagePath # <<>>

\* the updates handleSaveEdit passes to updateItem: with the uploaded image, with
\* the image cleared, or the name alone
SaveEditUpdates(payload, newlyUploadedImage) ==
    IF newlyUploadedImage # NoImage
    THEN [name      |-> payload.name,
          imageUrl  |-> newlyUploadedImage.imageUrl,
          imagePath |-> newlyUploadedImage.imagePath]
    ELSE IF ~payload.keepExistingImage
    THEN [name |-> payload.name, imageUrl |-> null, imagePath |-> null]
    ELSE [name |-> payload.name]

\* handleSaveEdit deleting the previous image whatever updateItem answered
handleSaveEditAfterUpdateItemAlwaysDeleting(handler, result) ==
    LET answered == [handler EXCEPT !.local.lib = result]
        replaced == handler.local.uploadedImage # NoImage
                        \/ ~handler.args.payload.keepExistingImage
    IN  IF replaced /\ HasImagePath(handler.args.editingItem.imagePath)
        THEN [answered EXCEPT !.pc = "deleteOld"]
        ELSE IF result = "ok" THEN [answered EXCEPT !.pc = "loadItems"]
        ELSE Finished([answered EXCEPT !.local.thrown = result,
                                       !.local.message = result], "ok")

\* handleSaveEdit after updateItem answered: on success the previous image is
\* deleted when the item got a new one or none, then loadItems; on failure the
\* catch block, which cleans up an uploaded image first.  The handler itself
\* never throws.
handleSaveEditAfterUpdateItem(handler, result) ==
    LET answered == [handler EXCEPT !.local.lib = result]
        replaced == handler.local.uploadedImage # NoImage
                        \/ ~handler.args.payload.keepExistingImage
    IN  IF result = "ok"
        THEN IF replaced /\ HasImagePath(handler.args.editingItem.imagePath)
             THEN [answered EXCEPT !.pc = "deleteOld"]
             ELSE [answered EXCEPT !.pc = "loadItems"]
        ELSE IF handler.local.uploadedImage # NoImage
        THEN [answered EXCEPT !.pc = "cleanup", !.local.thrown = result]
        ELSE Finished([answered EXCEPT !.local.thrown = result,
                                       !.local.message = result], "ok")

\* handleSaveEdit(payload) while editingItem is being edited, entered:
\* uploadItemImageFile when a file is chosen, else updateItem at once
handleSaveEdit(editingItem, payload) ==
    /\ CanIssue
    /\ LET handler == Handler("handleSaveEdit",
                              [editingItem |-> editingItem, payload |-> payload])
       IN  IF payload.imageFile # NoFile
           THEN /\ EnterUploading(handler, payload.imageFile)
                /\ UNCHANGED <<items, clock>>
           ELSE \E answer \in StoreAnswers :
                   LET updates == SaveEditUpdates(payload, NoImage)
                       result  == updateItemResult(payload.id, updates, answer)
                   IN  /\ updateItemEffect(payload.id, updates, result)
                       /\ Issue(handleSaveEditAfterUpdateItem(handler, result))
    /\ UNCHANGED <<stocks, nextItem, nextStock, stocks0, storage, cookie, env>>

\* handleSaveEdit after uploadItemImageFile settled: its error caught, or
\* updateItem with the uploaded image
handleSaveEditUploaded(h, answer) ==
    /\ h \in DOMAIN calls
    /\ calls[h].op = "handleSaveEdit"
    /\ calls[h].pc = "uploadItemImageFile"
    /\ Settled(h)
    /\ LET upload == calls[calls[h].local.sub]
       IN  IF upload.result # "ok"
           THEN /\ Advance(h, Finished([calls[h] EXCEPT !.local.thrown = upload.result,
                                                        !.local.message = upload.result],
                                       "ok"))
                /\ UNCHANGED <<items, clock>>
           ELSE LET handler == [calls[h] EXCEPT !.local.uploadedImage = upload.docId]
                    payload == calls[h].args.payload
                    updates == SaveEditUpdates(payload, upload.docId)
                    result  == updateItemResult(payload.id, updates, answer)
                IN  /\ updateItemEffect(payload.id, updates, result)
                    /\ Advance(h, handleSaveEditAfterUpdateItem(handler, result))
    /\ UNCHANGED <<stocks, nextItem, nextStock, stocks0, storage, cookie, env>>

\* handleSaveEdit deleting the previous image after updateItem succeeded:
\* deleteItemImageFile of editingItem's image, whose failure is swallowed
handleSaveEditDeleteOld(h, outcome) ==
    /\ h \in DOMAIN calls
    /\ calls[h].op = "handleSaveEdit"
    /\ calls[h].pc = "deleteOld"
    /\ deleteObject(calls[h].args.editingItem.imagePath, outcome)
    /\ Advance(h, [calls[h] EXCEPT !.pc = "loadItems", !.local.oldImage = outcome])
    /\ UNCHANGED <<items, stocks, clock, nextItem, nextStock, stocks0, cookie, env>>

\* the catch block of handleSaveEdit with an uploaded image: deleteItemImageFile of
\* it, whose failure is swallowed; then the message of the caught error is shown
handleSaveEditCleanup(h, outcome) ==
    /\ h \in DOMAIN calls
    /\ calls[h].op = "handleSaveEdit"
    /\ calls[h].pc = "cleanup"
    /\ deleteObject(calls[h].local.uploadedImage.imagePath, outcome)
    /\ Advance(h, Finished([calls[h] EXCEPT !.local.cleanup = outcome,
                                            !.local.message = calls[h].local.thrown],
                           "ok"))
    /\ UNCHANGED <<items, stocks, clock, nextItem, nextStock, stocks0, cookie, env>>

\* handleDelete(item), entered: countStocksByItemId, whose error is caught and
\* shown, then the confirmation
handleDelete(item, answer) ==
    /\ CanIssue
    /\ LET handler == Handler("handleDelete", [item |-> item])
           result  == IF trim(item.id) = <<>> THEN "itemId empty" ELSE answer
       IN  Issue(IF result = "ok"
                 THEN [handler EXCEPT !.pc = "confirm",
                                      !.local.refCount = Cardinality(countQuery(item.id))]
                 ELSE Finished([handler EXCEPT !.local.thrown = result,
                                               !.local.message = result], "ok"))
    /\ UNCHANGED <<items, stocks, clock, nextItem, nextStock, stocks0, storage, cookie, env>>

\* the handler after deleteItem answered
handleDeleteAfterDeleteItem(handler, result) ==
    LET answered == [handler EXCEPT !.local.lib = result]
    IN  IF result = "ok"
        THEN IF HasImagePath(handler.args.item.imagePath)
             THEN [answered EXCEPT !.pc = "deleteImage"]
             ELSE [answered EXCEPT !.pc = "loadItems"]
        ELSE Finished([answered EXCEPT !.local.thrown = result,
                                       !.local.message = result], "ok")

\* handleDelete refusing to delete an item that stocks refer to
handleDeleteConfirmedGuarded(h, shouldDelete, answer) ==
    /\ h \in DOMAIN calls
    /\ calls[h].op = "handleDelete"
    /\ calls[h].pc = "confirm"
    /\ LET handler == [calls[h] EXCEPT !.local.shouldDelete = shouldDelete]
           id      == calls[h].args.item.id
           result  == deleteItemResult(id, answer)
       IN  IF ~shouldDelete \/ calls[h].local.refCount > 0
           THEN /\ Advance(h, Finished(handler, "ok"))
                /\ UNCHANGED <<items, clock>>
           ELSE /\ deleteItemEffect(id, result)
                /\ Advance(h, handleDeleteAfterDeleteItem(handler, result))
    /\ UNCHANGED <<stocks, nextItem, nextStock, stocks0, storage, cookie, env>>

\* handleDelete after the user answered the confirmation: nothing when declined,
\* else deleteItem, whatever the count was
handleDeleteConfirmed(h, shouldDelete, answer) ==
    /\ h \in DOMAIN calls
    /\ calls[h].op = "handleDelete"
    /\ calls[h].pc = "confirm"
    /\ LET handler == [calls[h] EXCEPT !.local.shouldDelete = shouldDelete]
           id      == calls[h].args.item.id
           result  == deleteItemResult(id, answer)
       IN  IF ~shouldDelete
           THEN /\ Advance(h, Finished(handler, "ok"))
                /\ UNCHANGED <<items, clock>>
           ELSE /\ deleteItemEffect(id, result)
                /\ Advance(h, handleDeleteAfterDeleteItem(handler, result))
    /\ UNCHANGED <<stocks, nextItem, nextStock, stocks0, storage, cookie, env>>

\* handleDelete deleting the image of the deleted item: deleteItemImageFile, whose
\* failure is swallowed
handleDeleteImage(h, outcome) ==
    /\ h \in DOMAIN calls
    /\ calls[h].op = "handleDelete"
    /\ calls[h].pc = "deleteImage"
    /\ deleteObject(calls[h].args.item.imagePath, outcome)
    /\ Advance(h, [calls[h] EXCEPT !.pc = "loadItems", !.local.oldImage = outcome])
    /\ UNCHANGED <<items, stocks, clock, nextItem, nextStock, stocks0, cookie, env>>

----------------------------------------------------------------------------
(* The stock edit form (src/src/components/stocks/StockEditModal.tsx) *)

\* NaN
NotANumber == [nan |-> TRUE]

\* Number(text) for the texts a quantity field is given here: blank, digits,
\* digits after a minus sign, digits followed by ".5"; NaN for every other text
NumberOf(text) ==
    LET t == trim(text)
        AllDigits(s) == Len(s) > 0 /\ \A i \in DOMAIN s : IsDigit(s[i])
    IN  IF t = <<>> THEN Num(0)
        ELSE IF AllDigits(t) THEN Num(ToNumber(t))
        ELSE IF t[1] = "-" /\ AllDigits(Tail(t)) THEN Num(0 - ToNumber(Tail(t)))
        ELSE IF Len(t) > 2 /\ SubSeq(t, Len(t) - 1, Len(t)) = <<".", "5">>
                /\ AllDigits(SubSeq(t, 1, Len(t) - 2))
        THEN Half(ToNumber(SubSeq(t, 1, Len(t) - 2)))
        ELSE NotANumber

\* String(x) for a number that is not negative
StringOf(x) == IF x.frac THEN NumberToString(x.int) \o <<".", "5">> ELSE NumberToString(x.int)

\* the check of handleSubmit refusing negative quantities only
IsRejectedQuantityBelowZero(parsedQuantity) ==
    \/ parsedQuantity = NotANumber
    \/ ~IsInteger(parsedQuantity)
    \/ parsedQuantity.int < 0

\* the check of handleSubmit: !Number.isInteger(parsedQuantity) || parsedQuantity <= 0
IsRejectedQuantity(parsedQuantity) ==
    \/ parsedQuantity = NotANumber
    \/ ~IsInteger(parsedQuantity)
    \/ parsedQuantity.int <= 0

\* handleSubmit of the form opened on a stock, with the texts of its two fields:
\* the alert and nothing else for a quantity it rejects, else onSave, which is the
\* list page's handleSaveEdit: one updateStock(id, {expiryDate, quantity}), whose
\* error the page catches and shows
StockEditModalSubmit(stock, expiryDate, quantityText) ==
    /\ CanIssue
    /\ budget' = budget - 1
    /\ LET submit == NewCall("handleSubmit",
                             [stock |-> stock, expiryDate |-> expiryDate,
                              quantityText |-> quantityText])
           parsedQuantity == NumberOf(quantityText)
           updates == [expiryDate |-> expiryDate, quantity |-> parsedQuantity]
           call    == NewCall("updateStock", [id |-> stock.id, updates |-> updates])
           prep    == updateStockPrepare(stock.id, updates)
       IN  IF IsRejectedQuantity(parsedQuantity)
           THEN /\ calls' = Append(calls, Finished(submit, "alert"))
                /\ UNCHANGED <<stocks, clock>>
           ELSE IF prep.error # "ok"
           THEN /\ calls' = calls \o << Finished([submit EXCEPT !.local = prep.error], "ok"),
                                        Finished(call, prep.error) >>
                /\ UNCHANGED <<stocks, clock>>
           ELSE /\ UpdateStockDoc(stock.id, prep.payload)
                /\ calls' = calls \o
                      << Finished([submit EXCEPT !.local = UpdateDocResult(stocks, stock.id)],
                                  "ok"),
                         Finished([DidWrite(call) EXCEPT !.local = prep.payload],
                                  UpdateDocResult(stocks, stock.id)) >>
    /\ UNCHANGED <<items, nextItem, nextStock, stocks0, storage, cookie, env>>

----------------------------------------------------------------------------
(* Login (src/unnamed/part_012, src/src/middleware.ts, src/src/app/api/auth) *)

AUTH_COOKIE_VALUE == <<"a", "u", "t", "h", "e", "n", "t", "i", "c", "a", "t", "e", "d">>

\* the environment with the credentials set, and with none set
EnvSet == [AUTH_LOGIN_ID |-> <<"a">>, AUTH_LOGIN_PASSWORD |-> <<"p">>]
EnvUnset == [AUTH_LOGIN_ID |-> undefined, AUTH_LOGIN_PASSWORD |-> undefined]

\* getStaticAuthConfig: it throws when a variable is unset or empty
getStaticAuthConfig ==
    IF env.AUTH_LOGIN_ID \in {undefined, <<>>} \/ env.AUTH_LOGIN_PASSWORD \in {undefined, <<>>}
    THEN [error |-> "env unset"]
    ELSE [error |-> "ok", loginId |-> env.AUTH_LOGIN_ID,
          loginPassword |-> env.AUTH_LOGIN_PASSWORD]

\* isValidCredential accepting a matching id with any password
isValidCredentialIdOnly(inputId, inputPassword) ==
    IF getStaticAuthConfig.error # "ok" THEN "throws"
    ELSE IF inputId = getStaticAuthConfig.loginId
    THEN "true" ELSE "false"

\* isValidCredential: "true", "false", or "throws" what getStaticAuthConfig throws
isValidCredential(inputId, inputPassword) ==
    IF getStaticAuthConfig.error # "ok" THEN "throws"
    ELSE IF inputId = getStaticAuthConfig.loginId
            /\ inputPassword = getStaticAuthConfig.loginPassword
    THEN "true" ELSE "false"

\* isAuthenticatedCookieValue
isAuthenticatedCookieValue(cookieValue) == cookieValue = AUTH_COOKIE_VALUE

\* POST /api/auth/login with a body: the status of the response, and the session
\* cookie set in the browser on 200
login(body) ==
    /\ CanIssue
    /\ LET loginId  == IF body.loginId = undefined THEN <<>> ELSE trim(body.loginId)
           password == IF body.password = undefined THEN <<>> ELSE body.password
           status   ==
               IF Len(loginId) = 0 \/ Len(password) = 0 THEN "400"
               ELSE IF isValidCredential(loginId, password) = "throws" THEN "500"
               ELSE IF isValidCredential(loginId, password) = "false" THEN "401"
               ELSE "200"
       IN  /\ Issue(Finished(NewCall("login", body), status))
           /\ cookie' = IF status = "200" THEN AUTH_COOKIE_VALUE ELSE cookie
    /\ UNCHANGED <<items, stocks, clock, nextItem, nextStock, stocks0, storage, env>>

\* POST /api/auth/logout: the session cookie is set to '' with maxAge 0, on
\* which the browser drops it
logout ==
    /\ CanIssue
    /\ Issue(Finished(NewCall("logout", <<>>), "200"))
    /\ cookie' = undefined
    /\ UNCHANGED <<items, stocks, clock, nextItem, nextStock, stocks0, storage, env>>

\* s.startsWith(prefix)
startsWith(s, prefix) == Len(s) >= Len(prefix) /\ SubSeq(s, 1, Len(prefix)) = prefix

LoginPath == <<"/", "l", "o", "g", "i", "n">>

\* isPublicPath of the middleware
isPublicPath(pathname) ==
    \/ pathname = LoginPath
    \/ startsWith(pathname, LoginPath \o <<"/">>)
    \/ startsWith(pathname, <<"/", "a", "p", "i", "/">>)
    \/ startsWith(pathname, <<"/", "_", "n", "e", "x", "t", "/">>)
    \/ pathname = <<"/", "f", "a", "v", "i", "c", "o", "n", ".", "i", "c", "o">>

\* the response of the middleware to a request for pathname carrying authCookie
middlewareResponse(pathname, authCookie) ==
    IF ~isPublicPath(pathname) /\ ~isAuthenticatedCookieValue(authCookie)
    THEN "redirect /login"
    ELSE IF (pathname = LoginPath \/ startsWith(pathname, LoginPath \o <<"/">>))
            /\ isAuthenticatedCookieValue(authCookie)
    THEN "redirect /"
    ELSE "next"

\* a request for a page reaches the middleware
middleware(pathname, authCookie) ==
    /\ CanIssue
    /\ Issue(Finished(NewCall("middleware", [pathname |-> pathname, authCookie |-> authCookie]),
                      middlewareResponse(pathname, authCookie)))
    /\ UNCHANGED <<items, stocks, clock, nextItem, nextStock, stocks0, storage, cookie, env>>

----------------------------------------------------------------------------
(* Inputs *)

Item1 == ItemDocId(1)
Item2 == ItemDocId(2)
Stock1 == StockDocId(1)
Stock2 == StockDocId(2)

Blank == <<" ">>
NameA == <<"a">>
NameB == <<"b">>
NameC == <<"c">>
LongName == [i \in 1..(STOCK_NAME_MAX_LENGTH + 1) |-> "x"]

\* "2026-02-07" and "2026-03-01", the earlier "2025-12-31", the non-existent "2026-02-30", the malformed "2026-2-7"
Date1 == <<"2", "0", "2", "6", "-", "0", "2", "-", "0", "7">>
Date2 == <<"2", "0", "2", "6", "-", "0", "3", "-", "0", "1">>
Date0 == <<"2", "0", "2", "5", "-", "1", "2", "-", "3", "1">>
DateNonExistent == <<"2", "0", "2", "6", "-", "0", "2", "-", "3", "0">>
DateMalformed == <<"2", "0", "2", "6", "-", "2", "-", "7">>

AddItemInputs ==
    { <<Blank \o NameC, undefined>>, <<NameC, <<" ", "u", " ">> >>, <<Blank, undefined>>,
      <<LongName, undefined>> }

UpdateItemInputs ==
    { <<Item1, Field("name", NameC \o Blank)>>,
      <<Item1, Field("imageUrl", <<" ", "u", " ">>)>>,
      <<Item1, <<>> >>,
      <<Item2, Field("name", NameC)>> }

DeleteItemInputs == { Item1, Blank }

AddStockInputs ==
    { <<ref, Date1, Num(2)>> :
        ref \in { Field("itemId", Item1), Field("itemId", Blank \o Item1),
                  Field("itemId", Item2), Field("itemId", <<>>), Field("itemId", Blank),
                  Field("itemName", Blank \o NameB \o Blank), Field("itemName", Blank),
                  Field("itemName", LongName), <<>> } }
    \cup
    { <<Field("itemId", Item1), DateNonExistent, Num(2)>>,
      <<Field("itemName", NameB), DateMalformed, Num(2)>>,
      <<Field("itemName", NameB), Date2, Num(0)>>,
      <<Field("itemId", Item1), Date1, Num(-1)>>,
      <<Field("itemName", NameB), Date1, Half(1)>> }

UpdateStockInputs ==
    { <<Stock1, updates>> :
        updates \in
          { <<>>,
            Field("itemId", Item1), Field("itemId", Item2), Field("itemId", Blank),
            Field("itemName", Blank \o NameC), Field("itemName", Blank),
            Field("expiryDate", Date2), Field("expiryDate", DateNonExistent),
            Field("quantity", Num(0)), Field("quantity", Num(-1)),
            Field("quantity", Half(1)),
            [expiryDate |-> Date2, quantity |-> Num(3)],
            [itemId |-> Item1, itemName |-> NameC],
            [itemId |-> Item1, quantity |-> Num(-1)] } }
    \cup
    { <<Stock2, Field("quantity", Num(1))>>, <<Blank, Field("quantity", Num(1))>> }

DeleteStockInputs == { Stock1, Blank }

IncrementStockInputs ==
    { <<Stock1, delta>> : delta \in {Num(-2), Num(-1), Num(0), Num(1), Half(0)} }
    \cup
    { <<Stock2, Num(1)>>, <<Blank, Num(1)>> }

----------------------------------------------------------------------------
(* Specifications *)

NoDocs == <<>>

\* the quantities of the stock the store holds initially, in Spec and in SpecAdjust
InitQuantities == {Num(1)}
InitAdjustQuantities == {Num(0), Num(1), Num(2)}

\* the store holds what earlier calls left in it: no item or one, no stock or one,
\* entered by free text or by reference to the item
InitStore(quantities) ==
    /\ items \in { NoDocs, WithDoc(NoDocs, Item1, ItemDoc(NameA, null, 0)) }
    /\ stocks \in
         {NoDocs}
         \cup { WithDoc(NoDocs, Stock1,
                        StockDoc(null, NameB, dateInputToTimestamp(Date1), q, 0)) :
                  q \in quantities }
         \cup { WithDoc(NoDocs, Stock1,
                        StockDoc(Item1, items[Item1].name, dateInputToTimestamp(Date1), q, 0)) :
                  q \in IF Exists(items, Item1) THEN quantities ELSE {} }
    /\ nextItem = Cardinality(DOMAIN items)
    /\ nextStock = Cardinality(DOMAIN stocks)
    /\ clock = 1
    /\ calls = <<>>
    /\ stocks0 = stocks
    /\ storage = EmptyStorage(ProjectBucket \o FirebaseStorageApp)
    /\ cookie = undefined
    /\ env = EnvSet

Init == InitStore(InitQuantities) /\ budget = MaxCalls

Next ==
    \/ \E in \in AddItemInputs : addItem(in[1], in[2])
    \/ \E in \in UpdateItemInputs : updateItem(in[1], in[2])
    \/ \E id \in DeleteItemInputs : deleteItem(id)
    \/ \E in \in AddStockInputs : addStock(in[1], in[2], in[3])
    \/ \E c \in DOMAIN calls : addStockWrite(c)
    \/ \E in \in UpdateStockInputs : updateStock(in[1], in[2])
    \/ \E c \in DOMAIN calls : updateStockWrite(c)
    \/ \E id \in DeleteStockInputs : deleteStock(id)
    \/ \E in \in IncrementStockInputs : incrementStock(in[1], in[2])
    \/ \E c \in DOMAIN calls : transactionCommit(c)
    \/ \E c \in DOMAIN calls : transactionRetry(c)

Spec == Init /\ [][Next]_vars

\* the quantity adjuster alone, against one stock, with a delete and a plain
\* quantity update to interfere
InitAdjust ==
    /\ InitStore(InitAdjustQuantities)
    /\ items = NoDocs
    /\ budget = MaxAdjustCalls

NextAdjust ==
    \/ \E in \in IncrementStockInputs : incrementStock(in[1], in[2])
    \/ \E c \in DOMAIN calls : transactionCommit(c)
    \/ \E c \in DOMAIN calls : transactionRetry(c)
    \/ deleteStock(Stock1)
    \/ updateStock(Stock1, Field("quantity", Num(0)))

SpecAdjust == InitAdjust /\ [][NextAdjust]_vars

\* the queries, against a store that creates, updates and deletes change
QueryAddItemInputs == { <<NameB, undefined>>, <<NameA \o NameB, undefined>> }

QueryAddStockInputs ==
    { <<Field("itemName", NameC), Date0, Num(1)>>,
      <<Field("itemName", NameC), Date2, Num(1)>>,
      <<Field("itemId", Item1), Date1, Num(1)>> }

CountInputs == { Item1, Blank \o Item1, Blank }

InitQuery == InitStore(InitQuantities) /\ budget = MaxQueryCalls

NextQuery ==
    \/ \E in \in QueryAddItemInputs : addItem(in[1], in[2])
    \/ updateItem(Item1, Field("name", NameC))
    \/ deleteItem(Item1)
    \/ \E in \in QueryAddStockInputs : addStock(in[1], in[2], in[3])
    \/ \E c \in DOMAIN calls : addStockWrite(c)
    \/ updateStock(Stock1, Field("expiryDate", Date2))
    \/ deleteStock(Stock1)
    \/ listItems
    \/ listStocks
    \/ \E itemId \in CountInputs : countStocksByItemId(itemId)

SpecQuery == InitQuery /\ [][NextQuery]_vars


\* the date conversions alone, on date inputs of every shape: years of one to four
\* significant digits, months and days within and outside their range
DateYears ==
    { <<"0", "0", "0", "0">>, <<"0", "0", "9", "9">>, <<"0", "1", "0", "0">>,
      <<"0", "9", "9", "9">>, <<"1", "0", "0", "0">>, <<"1", "9", "0", "0">>,
      <<"2", "0", "2", "4">>, <<"2", "0", "2", "6">>, <<"9", "9", "9", "9">> }

DateMonths == { <<"0", "0">>, <<"0", "1">>, <<"0", "2">>, <<"1", "2">>, <<"1", "3">> }

DateDays ==
    { <<"0", "0">>, <<"0", "1">>, <<"2", "8">>, <<"2", "9">>, <<"3", "0">>,
      <<"3", "1">>, <<"3", "2">> }

DateInputs ==
    { y \o <<"-">> \o m \o <<"-">> \o d : y \in DateYears, m \in DateMonths, d \in DateDays }
    \cup { DateMalformed, <<>> }

InitDate ==
    /\ items = NoDocs
    /\ stocks = NoDocs
    /\ nextItem = 0
    /\ nextStock = 0
    /\ clock = 1
    /\ calls = <<>>
    /\ stocks0 = stocks
    /\ storage = EmptyStorage(ProjectBucket \o FirebaseStorageApp)
    /\ cookie = undefined
    /\ env = EnvSet
    /\ budget = MaxDateCalls

NextDate == \E dateInput \in DateInputs : dateRoundTrip(dateInput)

SpecDate == InitDate /\ [][NextDate]_vars

\* the image files a user picks: an image with a name to be made safe, a file
\* that is no image, an image of the largest size allowed, one too large
Files ==
    { [name |-> <<"a", " ", "b">>, isImage |-> TRUE, size |-> 1],
      [name |-> <<"c">>, isImage |-> FALSE, size |-> 1],
      [name |-> <<"c">>, isImage |-> TRUE, size |-> MAX_ITEM_IMAGE_BYTES],
      [name |-> <<"c">>, isImage |-> TRUE, size |-> MAX_ITEM_IMAGE_BYTES + 1] }

\* the buckets an application is configured with: one of each naming scheme, and
\* one of neither
BucketNames ==
    { ProjectBucket \o FirebaseStorageApp, ProjectBucket \o AppspotCom, ProjectBucket }

\* the image paths that uploads have returned
ReturnedPaths ==
    { calls[c].docId.imagePath :
        c \in {k \in DOMAIN calls : calls[k].op = "uploadItemImageFile" /\ calls[k].result = "ok"} }

\* the file storage and, beside it, calls to the store that fail or are retried
InitStorage ==
    /\ items = NoDocs
    /\ stocks = WithDoc(NoDocs, Stock1,
                        StockDoc(null, NameB, dateInputToTimestamp(Date1), Num(1), 0))
    /\ nextItem = 0
    /\ nextStock = 1
    /\ clock = 1
    /\ calls = <<>>
    /\ stocks0 = stocks
    /\ storage \in { EmptyStorage(bucketName) : bucketName \in BucketNames }
    /\ cookie = undefined
    /\ env = EnvSet
    /\ budget = MaxStorageCalls

NextStorage ==
    \/ \E file \in Files : uploadItemImageFile(file)
    \/ \E c \in DOMAIN calls : \E outcome \in UploadOutcomes : uploadBytesSettled(c, outcome)
    \/ \E c \in DOMAIN calls : \E outcome \in UploadOutcomes : fallbackUploadBytesSettled(c, outcome)
    \/ \E c \in DOMAIN calls : \E outcome \in DownloadUrlOutcomes : getDownloadURLSettled(c, outcome)
    \/ \E imagePath \in ReturnedPaths \cup {Blank} :
          \E outcome \in DeleteOutcomes \cup {"storage/object-not-found"} :
             deleteItemImageFile(imagePath, outcome)
    \/ \E id \in {Stock1, Stock2} : updateStock(id, Field("quantity", Num(0)))
    \/ deleteStock(Stock1)
    \/ incrementStock(Stock1, Num(1))
    \/ \E c \in DOMAIN calls : transactionCommit(c)
    \/ \E c \in DOMAIN calls : transactionRetry(c)

SpecStorage == InitStorage /\ [][NextStorage]_vars

\* the image of an item registered before, and its path
OldImagePath == <<"i", "t", "e", "m", "s", "/", "0", "-", "o">>
OldImage ==
    [imageUrl  |-> DownloadUrl(storageRef(ProjectBucket \o FirebaseStorageApp, OldImagePath)),
     imagePath |-> OldImagePath]

\* the files chosen in the forms of the items page: none, an image, a file that
\* is no image
PageFiles ==
    { NoFile,
      [name |-> <<"c">>, isImage |-> TRUE, size |-> 1],
      [name |-> <<"c">>, isImage |-> FALSE, size |-> 1] }

\* the items the page shows: those of the store, as loadItems read them
PageItems == { [id |-> id, imagePath |-> items[id].imagePath] : id \in DOMAIN items }

\* what the storage answers to an upload and to a deleteObject on the items page
PageUploadOutcomes == {"ok", "storage/unauthorized", "storage/bucket-not-found"}
PageDeleteOutcomes == DeleteOutcomes \cup {"storage/object-not-found"}

\* the items page over a store of one item, with an image or without, that a
\* stock refers to or none
InitPage ==
    /\ \E image \in {NoImage, OldImage} :
          /\ items = WithDoc(NoDocs, Item1, ItemDocWithImage(NameA, image, 0))
          /\ storage =
                IF image = NoImage THEN EmptyStorage(ProjectBucket \o FirebaseStorageApp)
                ELSE [EmptyStorage(ProjectBucket \o FirebaseStorageApp) EXCEPT
                         !.objects = {storageRef(ProjectBucket \o FirebaseStorageApp,
                                                 OldImagePath)}]
    /\ stocks \in { NoDocs,
                    WithDoc(NoDocs, Stock1,
                            StockDoc(Item1, NameA, dateInputToTimestamp(Date1), Num(1), 0)) }
    /\ nextItem = 1
    /\ nextStock = 1
    /\ clock = 1
    /\ calls = <<>>
    /\ stocks0 = stocks
    /\ cookie = undefined
    /\ env = EnvSet
    /\ budget = MaxPageCalls

NextPage ==
    \/ \E payload \in [name : {NameB, Blank}, imageFile : PageFiles] : handleCreate(payload)
    \/ \E h \in DOMAIN calls : \E answer \in StoreAnswers : handleCreateUploaded(h, answer)
    \/ \E h \in DOMAIN calls : \E outcome \in PageDeleteOutcomes : handleCreateCleanup(h, outcome)
    \/ \E editingItem \in PageItems :
          \E payload \in [id : {editingItem.id}, name : {NameC, Blank},
                          imageFile : PageFiles, keepExistingImage : BOOLEAN] :
             handleSaveEdit(editingItem, payload)
    \/ \E h \in DOMAIN calls : \E answer \in StoreAnswers : handleSaveEditUploaded(h, answer)
    \/ \E h \in DOMAIN calls : \E outcome \in PageDeleteOutcomes : handleSaveEditDeleteOld(h, outcome)
    \/ \E h \in DOMAIN calls : \E outcome \in PageDeleteOutcomes : handleSaveEditCleanup(h, outcome)
    \/ \E item \in PageItems : \E answer \in StoreAnswers : handleDelete(item, answer)
    \/ \E h \in DOMAIN calls : \E shouldDelete \in BOOLEAN : \E answer \in StoreAnswers :
          handleDeleteConfirmed(h, shouldDelete, answer)
    \/ \E h \in DOMAIN calls : \E outcome \in PageDeleteOutcomes : handleDeleteImage(h, outcome)
    \/ \E h \in DOMAIN calls : loadItems(h)
    \/ \E c \in DOMAIN calls : \E outcome \in PageUploadOutcomes : uploadBytesSettled(c, outcome)
    \/ \E c \in DOMAIN calls : \E outcome \in PageUploadOutcomes : fallbackUploadBytesSettled(c, outcome)
    \/ \E c \in DOMAIN calls : \E outcome \in DownloadUrlOutcomes : getDownloadURLSettled(c, outcome)

SpecPage == InitPage /\ [][NextPage]_vars

\* the stocks the list page shows, as it loaded them: at the start or just now
LoadedStocks ==
    { [id |-> id, expiryDate |-> stocks[id].expiryDate, quantity |-> stocks[id].quantity] :
        id \in DOMAIN stocks }
    \cup { [id |-> id, expiryDate |-> stocks0[id].expiryDate, quantity |-> stocks0[id].quantity] :
             id \in DOMAIN stocks0 }

\* the texts typed into the quantity field
QuantityTexts ==
    { <<"0">>, <<"2">>, <<"-", "1">>, <<"1", ".", "5">>, <<>>, <<"a">>, <<" ", "3">> }

\* the edit form over a store of one stock of quantity 1, which adjustments take
\* to 0 and back
InitModal ==
    /\ items = NoDocs
    /\ stocks = WithDoc(NoDocs, Stock1,
                        StockDoc(null, NameB, dateInputToTimestamp(Date1), Num(1), 0))
    /\ nextItem = 0
    /\ nextStock = 1
    /\ clock = 1
    /\ calls = <<>>
    /\ stocks0 = stocks
    /\ storage = EmptyStorage(ProjectBucket \o FirebaseStorageApp)
    /\ cookie = undefined
    /\ env = EnvSet
    /\ budget = MaxModalCalls

NextModal ==
    \/ \E stock \in LoadedStocks :
          \E expiryDate \in {timestampToDateInput(stock.expiryDate), <<>>} :
             \E quantityText \in QuantityTexts \cup {StringOf(stock.quantity)} :
                StockEditModalSubmit(stock, expiryDate, quantityText)
    \/ \E delta \in {Num(-1), Num(1)} : incrementStock(Stock1, delta)
    \/ \E c \in DOMAIN calls : transactionCommit(c)
    \/ \E c \in DOMAIN calls : transactionRetry(c)
    \/ deleteStock(Stock1)

SpecModal == InitModal /\ [][NextModal]_vars

\* the bodies posted to the login route: fields left out, blank, padded, right
\* and wrong
LoginBodies ==
    [loginId  : {undefined, <<" ">>, <<"a">>, <<" ", "a">>, <<"b">>},
     password : {undefined, <<"p">>, <<"p", " ">>, <<"q">>}]

\* the paths requested: pages, the login pages, a page whose path begins like
\* the login page's, a route of the API
Pathnames ==
    { <<"/">>, <<"/", "i", "t", "e", "m", "s">>, LoginPath, LoginPath \o <<"/", "e">>,
      LoginPath \o <<"x">>, <<"/", "a", "p", "i", "/", "x">> }

\* the session cookie a request carries: the browser's, none, another value, or
\* the value itself sent by a client that never logged in
RequestCookies == {cookie, undefined, <<"x">>, AUTH_COOKIE_VALUE}

\* a browser that holds the session cookie of an earlier login, or none
InitAuth ==
    /\ items = NoDocs
    /\ stocks = NoDocs
    /\ nextItem = 0
    /\ nextStock = 0
    /\ clock = 1
    /\ calls = <<>>
    /\ stocks0 = stocks
    /\ storage = EmptyStorage(ProjectBucket \o FirebaseStorageApp)
    /\ cookie \in {undefined, AUTH_COOKIE_VALUE}
    /\ env \in {EnvSet, EnvUnset}
    /\ budget = MaxAuthCalls

NextAuth ==
    \/ \E body \in LoginBodies : login(body)
    \/ logout
    \/ \E pathname \in Pathnames : \E authCookie \in RequestCookies :
          middleware(pathname, authCookie)

SpecAuth == InitAuth /\ [][NextAuth]_vars

----------------------------------------------------------------------------
(* Properties *)

AllDone == \A c \in DOMAIN calls : calls[c].pc = "done"

\* the c-th call takes a step (it is issued, or it advances)
Steps(c) == c \in DOMAIN calls' /\ (c \in DOMAIN calls => calls'[c] # calls[c])

\* the c-th call is an incrementStock that passed its checks
IsAdjust(c) ==
    /\ calls[c].op = "incrementStock"
    /\ incrementStockCheck(calls[c].args.id, calls[c].args.delta) = "ok"

\* every call issued is an incrementStock of stock id that passed its checks
OnlyAdjusts(id) == \A c \in DOMAIN calls : IsAdjust(c) /\ calls[c].args.id = id

\* the sum of the deltas of the first k calls
RECURSIVE SumOfDeltas(_)
SumOfDeltas(k) == IF k = 0 THEN 0 ELSE SumOfDeltas(k - 1) + calls[k].args.delta.int

\* the sum of the deltas of the first k calls taken in the given order
RECURSIVE SumInOrder(_, _)
SumInOrder(order, k) ==
    IF k = 0 THEN 0 ELSE SumInOrder(order, k - 1) + calls[order[k]].args.delta.int

\* applied from quantity q in no order do the calls cross below zero
NoOrderCrosses(q) ==
    \A order \in Permutations(DOMAIN calls) :
        \A k \in DOMAIN calls : q + SumInOrder(order, k) >= 0

\* C1: every stored stock record's quantity is an integer >= 0, in every reachable
\* state, whatever addStock, updateStock, incrementStock and deleteStock calls
\* succeeded or failed
C1_QuantityNonNegativeInteger ==
    \A id \in DOMAIN stocks :
        IsInteger(stocks[id].quantity) /\ ~IsNegative(stocks[id].quantity)

\* a decrement took the stock to 0 and a further decrement was refused
C1_Witness ==
    /\ Exists(stocks, Stock1) /\ stocks[Stock1].quantity = Num(0)
    /\ \E c, d \in DOMAIN calls :
         /\ calls[c].op = "incrementStock" /\ calls[c].result = "ok"
         /\ calls[d].op = "incrementStock"
         /\ calls[d].result = "quantity would be negative"

\* C2: when all the calls are incrementStock calls on the same existing stock, in no
\* order would they cross below zero, and all have returned, then all succeeded and
\* the stored quantity is the initial one plus the sum of the deltas, however the
\* calls overlapped
C2_NoLostUpdate ==
    ( /\ AllDone
      /\ Len(calls) >= 2
      /\ OnlyAdjusts(Stock1)
      /\ Exists(stocks0, Stock1)
      /\ NoOrderCrosses(stocks0[Stock1].quantity.int) )
    => /\ \A c \in DOMAIN calls : calls[c].result = "ok"
       /\ Exists(stocks, Stock1)
       /\ stocks[Stock1].quantity
            = Num(stocks0[Stock1].quantity.int + SumOfDeltas(Len(calls)))

\* three adjustments were all in flight together, at least one had its commit
\* refused and ran again, and all returned
C2_Witness ==
    /\ AllDone
    /\ Len(calls) >= 3
    /\ OnlyAdjusts(Stock1)
    /\ Exists(stocks0, Stock1)
    /\ NoOrderCrosses(stocks0[Stock1].quantity.int)
    /\ \A c \in DOMAIN calls : calls[c].inFlight = c - 1
    /\ \E c \in DOMAIN calls : calls[c].reads >= 2
    /\ \E c \in DOMAIN calls : calls[c].args.delta.int < 0

\* C3: a commit of incrementStock writes the quantity that is the stored quantity
\* at the moment of the commit plus the delta: never one computed from a value that
\* another write has replaced since the call read it
C3_CommitFromCurrentValue ==
    [][\A c \in DOMAIN calls :
          ( /\ calls[c].op = "incrementStock"
            /\ calls[c].pc = "commit"
            /\ calls'[c].result = "ok" )
          => /\ Exists(stocks, calls[c].args.id)
             /\ stocks'[calls[c].args.id].quantity
                  = Plus(stocks[calls[c].args.id].quantity, calls[c].args.delta)]_vars

\* two decrements by 1 raced on quantity 1: one committed, the other ran again and
\* was refused, and the quantity is 0
C3_Witness ==
    /\ Exists(stocks0, Stock1) /\ stocks0[Stock1].quantity = Num(1)
    /\ Len(calls) = 2
    /\ \A c \in DOMAIN calls : IsAdjust(c) /\ calls[c].args = [id |-> Stock1, delta |-> Num(-1)]
    /\ calls[2].inFlight = 1
    /\ \E c, d \in DOMAIN calls :
         /\ calls[c].result = "ok"
         /\ calls[d].result = "quantity would be negative" /\ calls[d].reads = 2
    /\ stocks[Stock1].quantity = Num(0)

\* the c-th call is an incrementStock that runs its transaction body in this step:
\* it is issued and passes its checks, or its commit is refused and the body runs again
RunsBody(c) ==
    /\ c \in DOMAIN calls'
    /\ calls'[c].op = "incrementStock"
    /\ incrementStockCheck(calls'[c].args.id, calls'[c].args.delta) = "ok"
    /\ \/ c \notin DOMAIN calls
       \/ calls'[c].reads = calls[c].reads + 1

\* C4: a run of the transaction body that reads a quantity q with q + delta < 0 ends
\* the call with the error, and the step leaves the stocks collection (so the
\* record's quantity and updatedAt) unchanged; the call has written nothing
C4_NegativeResultRejected ==
    [][\A c \in DOMAIN calls' :
          ( /\ RunsBody(c)
            /\ Exists(stocks, calls'[c].args.id)
            /\ IsValidQuantity(stocks[calls'[c].args.id].quantity)
            /\ IsNegative(Plus(stocks[calls'[c].args.id].quantity, calls'[c].args.delta)) )
          => /\ calls'[c].pc = "done"
             /\ calls'[c].result = "quantity would be negative"
             /\ calls'[c].writes = 0
             /\ stocks' = stocks]_vars

\* a decrement of a stock of quantity 0 was refused and the record is as it was
C4_Witness ==
    /\ Exists(stocks0, Stock1) /\ stocks0[Stock1].quantity = Num(0)
    /\ Exists(stocks, Stock1) /\ stocks[Stock1] = stocks0[Stock1]
    /\ \E c \in DOMAIN calls :
         /\ calls[c].op = "incrementStock" /\ calls[c].args.delta = Num(-1)
         /\ calls[c].result = "quantity would be negative"

\* C5: when incrementStock calls with non-zero integer deltas are applied to the
\* same stock one after another (each issued after the one before returned) and no
\* prefix sum takes the quantity below zero, every call succeeds and the final
\* quantity is the initial one plus the sum of the deltas
C5_SequentialSum ==
    ( /\ AllDone
      /\ OnlyAdjusts(Stock1)
      /\ Exists(stocks0, Stock1)
      /\ \A c \in DOMAIN calls : calls[c].inFlight = 0
      /\ \A k \in DOMAIN calls : stocks0[Stock1].quantity.int + SumOfDeltas(k) >= 0 )
    => /\ \A c \in DOMAIN calls : calls[c].result = "ok"
       /\ Exists(stocks, Stock1)
       /\ stocks[Stock1].quantity
            = Num(stocks0[Stock1].quantity.int + SumOfDeltas(Len(calls)))

\* three adjustments one after another, up from 0 and back down to 0, which in
\* another order would have crossed below zero
C5_Witness ==
    /\ AllDone
    /\ Len(calls) >= 3
    /\ OnlyAdjusts(Stock1)
    /\ Exists(stocks0, Stock1) /\ stocks0[Stock1].quantity = Num(0)
    /\ \A c \in DOMAIN calls : calls[c].inFlight = 0 /\ calls[c].result = "ok"
    /\ ~NoOrderCrosses(0)
    /\ \E c \in DOMAIN calls : calls[c].args.delta.int < 0
    /\ stocks[Stock1].quantity = Num(SumOfDeltas(Len(calls)))

\* C6: a run of the transaction body of incrementStock on an id that has no record
\* ends the call with the not-found error and changes nothing; and no step of an
\* incrementStock call creates (or removes) a stock record
C6_MissingStockRejected ==
    [][\A c \in DOMAIN calls' :
          /\ ( RunsBody(c) /\ ~Exists(stocks, calls'[c].args.id) )
             => /\ calls'[c].pc = "done"
                /\ calls'[c].result = "stock not found"
                /\ calls'[c].writes = 0
                /\ stocks' = stocks
          /\ ( Steps(c) /\ calls'[c].op = "incrementStock" )
             => DOMAIN stocks' = DOMAIN stocks]_vars

\* an adjustment read the record, the record was deleted before the commit, the
\* body ran again and found nothing; the record is still absent
C6_Witness ==
    /\ ~Exists(stocks, Stock1)
    /\ \E c \in DOMAIN calls :
         /\ calls[c].op = "incrementStock" /\ calls[c].args.id = Stock1
         /\ calls[c].result = "stock not found"
         /\ calls[c].reads = 2 /\ calls[c].writes = 0

\* C7: an incrementStock call whose delta is 0 or not an integer ends when it is
\* issued, with the validation error, without a read or a write sent to the store,
\* and the store is unchanged
C7_InvalidDeltaRejectedBeforeStore ==
    [][\A c \in DOMAIN calls' \ DOMAIN calls :
          ( /\ calls'[c].op = "incrementStock"
            /\ (calls'[c].args.delta = Num(0) \/ ~IsInteger(calls'[c].args.delta)) )
          => /\ calls'[c].pc = "done"
             /\ calls'[c].result
                  = (IF trim(calls'[c].args.id) = <<>> THEN "id empty" ELSE "delta invalid")
             /\ calls'[c].reads = 0
             /\ calls'[c].writes = 0
             /\ UNCHANGED <<items, stocks, clock>>]_vars

\* a call with delta 0 and a call with delta 0.5 on an existing stock were both
\* rejected without a store request
C7_Witness ==
    /\ Exists(stocks, Stock1)
    /\ \E c, d \in DOMAIN calls :
         /\ calls[c].op = "incrementStock" /\ calls[c].args = [id |-> Stock1, delta |-> Num(0)]
         /\ calls[d].op = "incrementStock" /\ calls[d].args = [id |-> Stock1, delta |-> Half(0)]
         /\ \A e \in {c, d} :
              /\ calls[e].result = "delta invalid"
              /\ calls[e].reads = 0 /\ calls[e].writes = 0

\* C8: every step that writes an existing stock record (updateStock or
\* incrementStock changing quantity, expiryDate, itemId or itemNameSnapshot) sets
\* its updatedAt, in that same step, to the store's time of the write, which is
\* later than the updatedAt it had
C8_UpdatedAtRefreshed ==
    [][\A id \in DOMAIN stocks \cap DOMAIN stocks' :
          stocks'[id] # stocks[id]
          => /\ stocks'[id].updatedAt = clock
             /\ stocks'[id].updatedAt > stocks[id].updatedAt]_vars

\* a stock was changed by an updateStock and by an incrementStock, and its
\* updatedAt is later than its createdAt
C8_Witness ==
    /\ Exists(stocks, Stock1)
    /\ stocks[Stock1].updatedAt > stocks[Stock1].createdAt
    /\ stocks[Stock1].updatedAt = clock - 1
    /\ \E c, d \in DOMAIN calls :
         /\ calls[c].op = "updateStock" /\ calls[c].result = "ok"
         /\ calls[c].args.id = Stock1
         /\ calls[d].op = "incrementStock" /\ calls[d].result = "ok"

\* C9: addStock with an itemId takes, when it reads the Item, the Item's id and its
\* name at that moment, and its addDoc stores that id and that name (which is the
\* Item's name at the write unless the Item was written in between); addStock with
\* an itemName stores itemId = null and the trimmed text
C9_AddStockSnapshot ==
    [][\A c \in DOMAIN calls' :
          /\ ( /\ c \notin DOMAIN calls
               /\ calls'[c].op = "addStock"
               /\ calls'[c].pc = "addDoc" )
             => /\ Exists(items, trim(calls'[c].args.itemRef.itemId))
                /\ calls'[c].local.itemId = trim(calls'[c].args.itemRef.itemId)
                /\ calls'[c].local.itemNameSnapshot
                     = items[trim(calls'[c].args.itemRef.itemId)].name
          /\ ( /\ Steps(c)
               /\ calls'[c].op = "addStock"
               /\ calls'[c].result = "ok" )
             => LET d   == calls'[c].docId
                    ref == calls'[c].args.itemRef
                    id  == trim(ref.itemId)
                IN  /\ d \notin DOMAIN stocks
                    /\ d \in DOMAIN stocks'
                    /\ IF Truthy(ref, "itemId")
                       THEN /\ stocks'[d].itemId = id
                            /\ stocks'[d].itemNameSnapshot = calls[c].local.itemNameSnapshot
                            /\ ( Exists(items, id) /\ items[id].updateTime < calls[c].readTime )
                               => stocks'[d].itemNameSnapshot = items[id].name
                       ELSE /\ stocks'[d].itemId = null
                            /\ stocks'[d].itemNameSnapshot = trim(ref.itemName)]_vars

\* a stock was added by a (padded) itemId and holds the Item's id and name, and a
\* stock was added by a (padded) itemName and holds null and the trimmed name
C9_Witness ==
    \E c, d \in DOMAIN calls :
        /\ calls[c].op = "addStock" /\ calls[c].result = "ok"
        /\ calls[c].args.itemRef = Field("itemId", Blank \o Item1)
        /\ Exists(stocks, calls[c].docId) /\ Exists(items, Item1)
        /\ stocks[calls[c].docId].itemId = Item1
        /\ stocks[calls[c].docId].itemNameSnapshot = items[Item1].name
        /\ calls[d].op = "addStock" /\ calls[d].result = "ok"
        /\ calls[d].args.itemRef = Field("itemName", Blank \o NameB \o Blank)
        /\ Exists(stocks, calls[d].docId)
        /\ stocks[calls[d].docId].itemId = null
        /\ stocks[calls[d].docId].itemNameSnapshot = NameB

\* the c-th call, issued in this step, is an addStock or an updateStock that reaches
\* its item lookup with an itemId for which no Item exists
LooksUpMissingItem(c) ==
    LET call == calls'[c]
    IN  \/ /\ call.op = "addStock"
           /\ IsValidQuantity(call.args.quantity)
           /\ Truthy(call.args.itemRef, "itemId")
           /\ trim(call.args.itemRef.itemId) # <<>>
           /\ ~Exists(items, trim(call.args.itemRef.itemId))
        \/ /\ call.op = "updateStock"
           /\ trim(call.args.id) # <<>>
           /\ "itemId" \in DOMAIN call.args.updates
           /\ trim(call.args.updates.itemId) # <<>>
           /\ ~Exists(items, trim(call.args.updates.itemId))

\* C10: addStock or updateStock given an itemId that does not resolve to an existing
\* Item ends with the reference-not-found error, sends no write to the store, and
\* leaves the stocks collection unchanged (no record created, the target unchanged)
C10_MissingItemRejected ==
    [][\A c \in DOMAIN calls' \ DOMAIN calls :
          LooksUpMissingItem(c)
          => /\ calls'[c].pc = "done"
             /\ calls'[c].result = "item not found"
             /\ calls'[c].reads = 1
             /\ calls'[c].writes = 0
             /\ stocks' = stocks
             /\ nextStock' = nextStock]_vars

\* an addStock and an updateStock of an existing stock both named an Item that does
\* not exist, both were refused, and the stocks collection is as it was
C10_Witness ==
    /\ Exists(stocks, Stock1)
    /\ stocks = stocks0
    /\ \E c, d \in DOMAIN calls :
         /\ calls[c].op = "addStock" /\ calls[c].result = "item not found"
         /\ calls[d].op = "updateStock" /\ calls[d].result = "item not found"
         /\ calls[d].args.id = Stock1

\* the c-th call is an addStock or an updateStock that has read the Item of its
\* itemId and sends its write to the store in this step; the id of the record written
WritesItemRef(c) ==
    /\ c \in DOMAIN calls
    /\ \/ calls[c].op = "addStock" /\ calls[c].pc = "addDoc"
       \/ calls[c].op = "updateStock" /\ calls[c].pc = "updateDoc"
    /\ calls[c].local.itemId # null
    /\ calls'[c].result = "ok"

WrittenDocId(c) ==
    IF calls[c].op = "addStock" THEN calls'[c].docId ELSE calls[c].args.id

\* C11: when addStock or updateStock, given an itemId, commits its stock write, the
\* itemNameSnapshot written is the name the referenced Item has at that moment,
\* also when an updateItem renamed the Item or a deleteItem removed it between the
\* lookup and the write
C11_SnapshotIsNameAtWrite ==
    [][\A c \in DOMAIN calls :
          WritesItemRef(c)
          => /\ Exists(items, calls[c].local.itemId)
             /\ stocks'[WrittenDocId(c)].itemNameSnapshot
                  = items[calls[c].local.itemId].name]_vars

\* the c-th call, issued in this step, is an addStock or an updateStock that reaches
\* its getItemById with the item id given
LooksUp(c, id) ==
    LET call == calls'[c]
    IN  \/ /\ call.op = "addStock"
           /\ IsValidQuantity(call.args.quantity)
           /\ Truthy(call.args.itemRef, "itemId")
           /\ trim(call.args.itemRef.itemId) = id
        \/ /\ call.op = "updateStock"
           /\ trim(call.args.id) # <<>>
           /\ "itemId" \in DOMAIN call.args.updates
           /\ trim(call.args.updates.itemId) = id

\* C12: a deleteItem of an Item that stock records refer to leaves every stock
\* record as it was (no field changed, no stock deleted); and an item id the store
\* has given out and that has no record stays without one, so that every later
\* getItemById of a deleted Item returns null
C12_DeleteItemLeavesStocks ==
    [][/\ \A c \in DOMAIN calls' \ DOMAIN calls :
             ( calls'[c].op = "deleteItem" /\ calls'[c].result = "ok" )
             => /\ stocks' = stocks
                /\ ~Exists(items', calls'[c].args.id)
       /\ \A n \in 1..nextItem :
             ~Exists(items, ItemDocId(n)) => ~Exists(items', ItemDocId(n))
       /\ \A c \in DOMAIN calls' \ DOMAIN calls :
             \A d \in DOMAIN calls :
                ( /\ calls[d].op = "deleteItem" /\ calls[d].result = "ok"
                  /\ calls[d].docId # null
                  /\ LooksUp(c, calls[d].docId) )
                => calls'[c].result = "item not found"]_vars

\* the Item a stock refers to was deleted, the stock is as it was, still naming the
\* Item, and a later lookup of the Item (by updateStock) found nothing
C12_Witness ==
    /\ Exists(stocks0, Stock1) /\ stocks0[Stock1].itemId = Item1
    /\ stocks = stocks0
    /\ ~Exists(items, Item1)
    /\ Len(calls) = 2
    /\ calls[1].op = "deleteItem" /\ calls[1].docId = Item1 /\ calls[1].result = "ok"
    /\ calls[2].op = "updateStock" /\ calls[2].args.updates = Field("itemId", Item1)
    /\ calls[2].result = "item not found"

\* the number of stock records, among the first n the store has given an id, that
\* exist and whose itemId is the given one
RECURSIVE CountRefs(_, _)
CountRefs(n, itemId) ==
    IF n = 0 THEN 0
    ELSE CountRefs(n - 1, itemId)
           + (IF Exists(stocks, StockDocId(n)) /\ stocks[StockDocId(n)].itemId = itemId
              THEN 1 ELSE 0)

\* C13: countStocksByItemId(itemId), for an itemId that is not blank, returns the
\* number of stored stock records whose itemId equals the given id (0 when there is
\* none), which leaves out every stock entered by free-text name (itemId = null);
\* it changes nothing in the store
C13_CountIsNumberOfReferences ==
    [][\A c \in DOMAIN calls' \ DOMAIN calls :
          ( /\ calls'[c].op = "countStocksByItemId"
            /\ trim(calls'[c].args.itemId) # <<>> )
          => /\ calls'[c].result = "ok"
             /\ calls'[c].local.count = CountRefs(nextStock, calls'[c].args.itemId)
             /\ calls'[c].local.count
                  <= Cardinality({id \in DOMAIN stocks : stocks[id].itemId # null})
             /\ UNCHANGED <<items, stocks>>]_vars

\* with a stock entered by free text and a stock that refers to the Item, the count
\* for the Item's id was 1, and the count for an id no stock holds was 0
C13_Witness ==
    /\ Cardinality(DOMAIN stocks) = 2
    /\ \E id \in DOMAIN stocks : stocks[id].itemId = null
    /\ \E id \in DOMAIN stocks : stocks[id].itemId = Item1
    /\ \E c, d \in DOMAIN calls :
         /\ calls[c].op = "countStocksByItemId" /\ calls[c].args.itemId = Item1
         /\ calls[c].result = "ok" /\ calls[c].local.count = 1
         /\ calls[d].op = "countStocksByItemId" /\ calls[d].args.itemId = Blank \o Item1
         /\ calls[d].result = "ok" /\ calls[d].local.count = 0

\* C14: for every date string that assertValidDateInput accepts,
\* timestampToDateInput(dateInputToTimestamp(s)) is s
C14_DateRoundTrip ==
    \A c \in DOMAIN calls :
        ( calls[c].op = "dateRoundTrip" /\ calls[c].result = "ok" )
        => calls[c].local.dateInput = calls[c].args.dateInput

\* C15: an updateStock or updateItem call given an empty update object ends with a
\* validation error when it is issued, without a read or a write sent to the store:
\* the target record, its updatedAt included, and the rest of the store are unchanged
C15_EmptyUpdateRejected ==
    [][\A c \in DOMAIN calls' \ DOMAIN calls :
          ( /\ calls'[c].op \in {"updateStock", "updateItem"}
            /\ calls'[c].args.updates = <<>> )
          => /\ calls'[c].pc = "done"
             /\ calls'[c].result
                  = (IF trim(calls'[c].args.id) = <<>> THEN "id empty"
                     ELSE "no fields to update")
             /\ calls'[c].reads = 0
             /\ calls'[c].writes = 0
             /\ UNCHANGED <<items, stocks, clock>>]_vars

\* an updateStock of an existing stock and an updateItem of an existing item, both
\* with an empty update object, were refused, and the records are as they were
C15_Witness ==
    /\ Exists(stocks, Stock1) /\ stocks = stocks0
    /\ Exists(items, Item1) /\ items[Item1].updateTime = 0
    /\ \E c, d \in DOMAIN calls :
         /\ calls[c].op = "updateStock" /\ calls[c].args = [id |-> Stock1, updates |-> <<>>]
         /\ calls[c].result = "no fields to update"
         /\ calls[d].op = "updateItem" /\ calls[d].args = [id |-> Item1, updates |-> <<>>]
         /\ calls[d].result = "no fields to update"

\* the fields of a stock record that an update object supplies: the item reference
\* (itemId with its itemNameSnapshot) when it names an itemId or an itemName, the
\* expiryDate, the quantity, and updatedAt in every case
SuppliedStockFields(updates) ==
    (IF {"itemId", "itemName"} \cap DOMAIN updates # {}
     THEN {"itemId", "itemNameSnapshot"} ELSE {})
    \cup ({"expiryDate", "quantity"} \cap DOMAIN updates)
    \cup {"updatedAt"}

\* the fields of the data of a record (updateTime is the store's version of it)
DataFields(d) == DOMAIN d \ {"updateTime"}

\* C16: a successful updateStock changes, in the record it names, only the fields
\* its update supplies and updatedAt, and a successful updateItem only the name or
\* imageUrl it supplies; no other record of either collection is changed, created
\* or deleted by it; and no step changes the createdAt of a record
C16_UpdateFrame ==
    [][/\ \A c \in DOMAIN calls' :
             ( Steps(c) /\ calls'[c].op = "updateStock" /\ calls'[c].result = "ok" )
             => LET id == calls'[c].args.id
                IN  /\ items' = items
                    /\ DOMAIN stocks' = DOMAIN stocks
                    /\ \A other \in DOMAIN stocks \ {id} : stocks'[other] = stocks[other]
                    /\ \A f \in DataFields(stocks[id]) \ SuppliedStockFields(calls'[c].args.updates) :
                          stocks'[id][f] = stocks[id][f]
       /\ \A c \in DOMAIN calls' :
             ( Steps(c) /\ calls'[c].op = "updateItem" /\ calls'[c].result = "ok" )
             => LET id == calls'[c].args.id
                IN  /\ stocks' = stocks
                    /\ DOMAIN items' = DOMAIN items
                    /\ \A other \in DOMAIN items \ {id} : items'[other] = items[other]
                    /\ \A f \in DataFields(items[id]) \ DOMAIN calls'[c].args.updates :
                          items'[id][f] = items[id][f]
       /\ \A id \in DOMAIN stocks \cap DOMAIN stocks' :
             stocks'[id].createdAt = stocks[id].createdAt
       /\ \A id \in DOMAIN items \cap DOMAIN items' :
             items'[id].createdAt = items[id].createdAt]_vars

\* an updateStock that supplied only the quantity changed the quantity and updatedAt
\* and nothing else of the stock, and an updateItem that supplied only the name
\* changed the name and nothing else of the item
C16_Witness ==
    /\ Exists(stocks0, Stock1) /\ Exists(stocks, Stock1) /\ Exists(items, Item1)
    /\ stocks[Stock1].quantity # stocks0[Stock1].quantity
    /\ stocks[Stock1].updatedAt # stocks0[Stock1].updatedAt
    /\ \A f \in {"itemId", "itemNameSnapshot", "expiryDate", "createdAt"} :
          stocks[Stock1][f] = stocks0[Stock1][f]
    /\ items[Item1].name = NameC /\ items[Item1].createdAt = 0
    /\ \E c, d \in DOMAIN calls :
         /\ calls[c].op = "updateStock" /\ calls[c].result = "ok"
         /\ DOMAIN calls[c].args.updates = {"quantity"}
         /\ calls[d].op = "updateItem" /\ calls[d].result = "ok"
         /\ DOMAIN calls[d].args.updates = {"name"}

\* the c-th call is an addStock or an updateStock that ended with a validation
\* error: an empty or too long name, an invalid quantity, a malformed or
\* non-existent date, a missing or empty item reference
ValidationErrors ==
    {"quantity invalid", "itemId empty", "itemName empty", "itemName too long",
     "itemId or itemName required", "date format", "date does not exist"}

FailedValidation(c) ==
    /\ calls'[c].op \in {"addStock", "updateStock"}
    /\ calls'[c].pc = "done"
    /\ calls'[c].result \in ValidationErrors

\* C17: every validation failure of addStock and updateStock is raised before any
\* store access: the call that ends with it has sent no read and no write to the
\* store, also when it supplies a valid itemId with the invalid date or quantity
C17_ValidationBeforeStoreAccess ==
    [][\A c \in DOMAIN calls' :
          ( Steps(c) /\ FailedValidation(c) )
          => calls'[c].reads = 0 /\ calls'[c].writes = 0]_vars

\* the item id an addStock or updateStock call supplies (trimmed), or <<>>
SuppliedItemId(call) ==
    IF call.op = "addStock"
    THEN IF Truthy(call.args.itemRef, "itemId") THEN trim(call.args.itemRef.itemId) ELSE <<>>
    ELSE IF "itemId" \in DOMAIN call.args.updates THEN trim(call.args.updates.itemId)
    ELSE <<>>

\* C17 as amended: every validation failure of addStock and updateStock is raised
\* before any write to the store, and before any read other than the one lookup of
\* the Item of a supplied itemId.  With no itemId supplied (or an empty one) the
\* call has sent no request at all, and so has an addStock with an invalid
\* quantity; with an existing Item's id supplied, an invalid date (and, in
\* updateStock, an invalid itemName or quantity) is raised after that one read.
\* The store is unchanged in every case.
C17_ValidationBeforeWrite ==
    [][\A c \in DOMAIN calls' \ DOMAIN calls :
          FailedValidation(c)
          => /\ calls'[c].writes = 0
             /\ UNCHANGED <<items, stocks, clock>>
             /\ calls'[c].reads
                  = (IF /\ SuppliedItemId(calls'[c]) # <<>>
                        /\ ~( calls'[c].op = "addStock"
                              /\ calls'[c].result = "quantity invalid" )
                     THEN 1 ELSE 0)
             /\ calls'[c].reads = 1 => Exists(items, SuppliedItemId(calls'[c]))]_vars

\* an addStock by free-text name with a malformed date was refused without a
\* request to the store, and an addStock by the id of an existing Item with a date
\* that does not exist was refused after the one read of the Item
C17_Witness ==
    /\ stocks = stocks0
    /\ Exists(items, Item1)
    /\ \E c, d \in DOMAIN calls :
         /\ calls[c].op = "addStock" /\ calls[c].args.itemRef = Field("itemName", NameB)
         /\ calls[c].result = "date format"
         /\ calls[c].reads = 0 /\ calls[c].writes = 0
         /\ calls[d].op = "addStock" /\ calls[d].args.itemRef = Field("itemId", Item1)
         /\ calls[d].result = "date does not exist"
         /\ calls[d].reads = 1 /\ calls[d].writes = 0

\* the c-th call is an updateStock or an updateItem whose updateDoc reaches the
\* store in this step
SendsUpdate(w) ==
    /\ Steps(w)
    /\ calls'[w].op \in {"updateStock", "updateItem"}
    /\ calls'[w].writes = 1
    /\ w \in DOMAIN calls => calls[w].writes = 0

\* the record an update call names, if the store holds it
Holds(call) ==
    IF call.op = "updateStock" THEN Exists(stocks, call.args.id)
    ELSE Exists(items, call.args.id)

RecordOf(call) ==
    IF call.op = "updateStock" THEN stocks[call.args.id] ELSE items[call.args.id]

\* the same record as this step leaves it
RecordAfter(call) ==
    IF call.op = "updateStock" THEN stocks'[call.args.id] ELSE items'[call.args.id]

\* the data fields an update call writes, updatedAt aside
PayloadFields(call) == DOMAIN call.local \ {"updatedAt"}

\* call e is an update of the same record as the update w that writes in this step,
\* it has succeeded, and the two were concurrent: e was issued while w was in
\* flight, or the two are requests that reached the store one right after the other
ConcurrentEarlier(w, e) ==
    /\ e \in DOMAIN calls /\ e # w
    /\ calls[e].op = calls'[w].op
    /\ calls[e].args.id = calls'[w].args.id
    /\ calls[e].result = "ok"
    /\ e > w \/ (e = w - 1 /\ w \notin DOMAIN calls)

\* C18: of two concurrent updateStock (or updateItem) calls on the same record both
\* succeed, no version being checked, and the later write overwrites the field
\* changes of the earlier caller, whether the two changed overlapping or
\* non-overlapping fields
C18_LaterWriteOverwrites ==
    [][\A w \in DOMAIN calls' : \A e \in DOMAIN calls :
          ( SendsUpdate(w) /\ Holds(calls'[w]) /\ ConcurrentEarlier(w, e) )
          => /\ calls'[w].result = "ok"
             /\ \A f \in PayloadFields(calls[e]) :
                   RecordOf(calls'[w])[f] = calls[e].local[f]
                   => \/ f \in PayloadFields(calls'[w])
                      \/ RecordAfter(calls'[w])[f] # calls[e].local[f]]_vars

\* C18 as amended: of two concurrent updateStock (or updateItem) calls on the same
\* record both succeed, no version being checked, and the writes merge field by
\* field: a field the later write supplies takes the later write's value, and a
\* field only the earlier caller supplied keeps the value it had, the earlier
\* caller's change included (updatedAt is the later write's)
C18_WritesMergeByField ==
    [][\A w \in DOMAIN calls' :
          ( SendsUpdate(w) /\ Holds(calls'[w]) )
          => /\ calls'[w].result = "ok"
             /\ \A f \in PayloadFields(calls'[w]) :
                   RecordAfter(calls'[w])[f] = calls'[w].local[f]
             /\ \A e \in DOMAIN calls :
                   ConcurrentEarlier(w, e)
                   => \A f \in PayloadFields(calls[e]) \ PayloadFields(calls'[w]) :
                         RecordAfter(calls'[w])[f] = RecordOf(calls'[w])[f]]_vars

\* an updateStock that named an itemId was in flight when an updateStock of the same
\* stock wrote the quantity; both succeeded, the stock holds the item reference of
\* the later write and the quantity of the earlier one
C18_Witness ==
    /\ Len(calls) = 2
    /\ Exists(stocks0, Stock1) /\ stocks0[Stock1].itemId = null
    /\ calls[1].op = "updateStock" /\ calls[1].args = [id |-> Stock1, updates |-> Field("itemId", Item1)]
    /\ calls[2].op = "updateStock" /\ calls[2].args = [id |-> Stock1, updates |-> Field("quantity", Num(0))]
    /\ calls[2].inFlight = 1
    /\ calls[1].result = "ok" /\ calls[2].result = "ok"
    /\ Exists(stocks, Stock1)
    /\ stocks[Stock1].itemId = Item1
    /\ stocks[Stock1].quantity = Num(0)

\* C19: a stock record comes into being only by the addDoc of an addStock, under an
\* id the store has not given out before; so a record that was deleted (or never
\* existed) is not made present by an updateStock or an incrementStock, also not by
\* an incrementStock transaction that read the record before the deleteStock
C19_StockLifecycle ==
    [][\A id \in DOMAIN stocks' \ DOMAIN stocks :
          /\ id = StockDocId(nextStock + 1)
          /\ nextStock' = nextStock + 1
          /\ \E c \in DOMAIN calls' :
                /\ Steps(c)
                /\ calls'[c].op = "addStock"
                /\ calls'[c].result = "ok"
                /\ calls'[c].docId = id]_vars

\* an incrementStock read the stock, a deleteStock removed it, and the transaction,
\* refused at its commit, ran again and found nothing: the stock stays absent
C19_Witness ==
    /\ Exists(stocks0, Stock1)
    /\ ~Exists(stocks, Stock1)
    /\ Len(calls) = 2
    /\ calls[1].op = "incrementStock" /\ calls[1].args.id = Stock1
    /\ calls[1].reads = 2 /\ calls[1].result = "stock not found"
    /\ calls[2].op = "deleteStock" /\ calls[2].args.id = Stock1
    /\ calls[2].inFlight = 1 /\ calls[2].result = "ok"

\* the rows list every document of the collection exactly once
ListsAll(rows, collection) ==
    /\ Len(rows) = Cardinality(DOMAIN collection)
    /\ \A id \in DOMAIN collection : \E i \in DOMAIN rows : rows[i].id = id
    /\ \A i \in DOMAIN rows : rows[i].id \in DOMAIN collection

\* C20: a listItems call returns every Item record of the store, once each and with
\* its stored name, no row with a name smaller than its predecessor's; a listStocks
\* call returns every Stock record, once each and with its stored expiryDate, no
\* row with an expiryDate earlier than its predecessor's; whatever creates,
\* updates and deletes came before
C20_ListsAreSorted ==
    [][\A c \in DOMAIN calls' :
          /\ (Steps(c) /\ calls'[c].op = "listItems") =>
                LET rows == calls'[c].local
                IN  /\ calls'[c].result = "ok"
                    /\ ListsAll(rows, items)
                    /\ \A i \in DOMAIN rows : rows[i].name = items[rows[i].id].name
                    /\ \A i \in 1..(Len(rows) - 1) :
                          ~StringLess(rows[i + 1].name, rows[i].name)
          /\ (Steps(c) /\ calls'[c].op = "listStocks") =>
                LET rows == calls'[c].local
                IN  /\ calls'[c].result = "ok"
                    /\ ListsAll(rows, stocks)
                    /\ \A i \in DOMAIN rows :
                          rows[i].expiryDate = stocks[rows[i].id].expiryDate
                    /\ \A i \in 1..(Len(rows) - 1) :
                          rows[i].expiryDate <= rows[i + 1].expiryDate]_vars

\* listItems returned the item created second before the item created first,
\* which was renamed after the second was created
C20_Witness ==
    /\ Len(calls) = 3
    /\ calls[1].op = "addItem" /\ calls[1].docId = ItemDocId(2)
    /\ calls[2].op = "updateItem" /\ calls[2].result = "ok"
    /\ calls[3].op = "listItems" /\ calls[3].result = "ok"
    /\ Len(calls[3].local) = 2
    /\ calls[3].local[1].id = ItemDocId(2) /\ calls[3].local[1].name = NameB
    /\ calls[3].local[2].id = Item1 /\ calls[3].local[2].name = NameC

\* C25: every stored stock record has an itemNameSnapshot that is a string of at
\* least one and at most 100 characters, whether an addStock or an updateStock
\* wrote it, from an item's name or from free text
C25_SnapshotLength ==
    \A id \in DOMAIN stocks :
        /\ Len(stocks[id].itemNameSnapshot) >= 1
        /\ Len(stocks[id].itemNameSnapshot) <= 100

\* a stock was created from the name of an item that an addItem created
C25_Witness ==
    /\ Exists(stocks, Stock1) /\ Exists(stocks, Stock2)
    /\ \E c, d \in DOMAIN calls :
         /\ calls[c].op = "addItem" /\ calls[c].result = "ok"
         /\ calls[d].op = "addStock" /\ calls[d].result = "ok"
         /\ calls[d].docId = Stock2
         /\ calls[d].args.itemRef = Field("itemId", calls[c].docId)
         /\ stocks[Stock2].itemNameSnapshot = items[calls[c].docId].name

\* C26: a step of an updateItem call changes no stock record, so a rename of an
\* item leaves the itemNameSnapshot of the stocks referring to it as it was; the
\* itemNameSnapshot (and the itemId) of a stock record changes only in the write of
\* an updateStock that supplied an item reference
C26_SnapshotNotLive ==
    [][/\ \A c \in DOMAIN calls' :
             (Steps(c) /\ calls'[c].op = "updateItem") => stocks' = stocks
       /\ \A id \in DOMAIN stocks \cap DOMAIN stocks' :
             ( stocks'[id].itemNameSnapshot # stocks[id].itemNameSnapshot
               \/ stocks'[id].itemId # stocks[id].itemId )
             => \E c \in DOMAIN calls' :
                   /\ Steps(c)
                   /\ calls'[c].op = "updateStock"
                   /\ calls'[c].args.id = id
                   /\ {"itemId", "itemName"} \cap DOMAIN calls'[c].args.updates # {}]_vars

\* an item was renamed, and the stock that refers to it still has the old name
C26_Witness ==
    /\ Exists(stocks, Stock1) /\ Exists(items, Item1)
    /\ stocks[Stock1].itemId = Item1
    /\ items[Item1].name = NameC
    /\ stocks[Stock1].itemNameSnapshot = NameA
    /\ \E c \in DOMAIN calls :
         /\ calls[c].op = "updateItem" /\ calls[c].result = "ok"
         /\ calls[c].args.id = Item1
         /\ "name" \in DOMAIN calls[c].args.updates

\* C27: an incrementStock call writes at most once, however often its transaction
\* body runs: the step in which it returns successfully is its only write, and it
\* adds the delta once to the quantity stored at that moment, which is the
\* quantity its last run of the body read; every other step of the call (a read,
\* a refused commit and the run of the body that follows, a failure) leaves every
\* stock record as it is, so a call that fails has changed neither quantity nor
\* updatedAt; and a call that has returned takes no further step
C27_EffectAtMostOnce ==
    [][\A c \in DOMAIN calls' :
          /\ (Steps(c) /\ calls'[c].op = "incrementStock") =>
                LET id == calls'[c].args.id
                IN  IF calls'[c].result = "ok"
                    THEN /\ calls'[c].writes = 1
                         /\ calls[c].local.quantity
                              = Plus(stocks[id].quantity, calls[c].args.delta)
                         /\ stocks'[id].quantity = calls[c].local.quantity
                         /\ \A other \in DOMAIN stocks \ {id} : stocks'[other] = stocks[other]
                    ELSE /\ calls'[c].writes = 0
                         /\ stocks' = stocks
          /\ (c \in DOMAIN calls /\ calls[c].pc = "done") => calls'[c] = calls[c]]_vars

\* of three adjustments that read quantity 1, one committed; the second ran its body
\* again, read 0 and failed without a write; the third ran its body again and
\* committed its delta once
C27_Witness ==
    /\ Exists(stocks0, Stock1) /\ stocks0[Stock1].quantity = Num(1)
    /\ Len(calls) = 3
    /\ \A c \in DOMAIN calls : IsAdjust(c) /\ calls[c].pc = "done"
    /\ \E c, d \in DOMAIN calls :
         /\ calls[c].result = "ok" /\ calls[c].reads = 2 /\ calls[c].writes = 1
         /\ calls[c].args.delta = Num(1)
         /\ calls[d].result = "quantity would be negative"
         /\ calls[d].reads = 2 /\ calls[d].writes = 0
    /\ stocks[Stock1].quantity = Num(1)

\* the requests of the c-th call that failed: those the storage refused, and the
\* write of an update to a document that does not exist
FailedRequests(c) ==
    IF calls[c].op = "uploadItemImageFile" /\ calls[c].local # <<>> THEN calls[c].local.failed
    ELSE IF calls[c].op = "deleteItemImageFile" /\ calls[c].result # "ok" THEN calls[c].writes
    ELSE IF calls[c].result = "store: not found" THEN 1
    ELSE 0

C29_DeleteAddressesUploadBucket ==
    \A c, d \in DOMAIN calls :
        ( /\ calls[c].op = "uploadItemImageFile"
          /\ calls[c].result = "ok"
          /\ calls[d].op = "deleteItemImageFile"
          /\ calls[d].args.imagePath = calls[c].docId.imagePath )
        => /\ calls[d].local.bucket = calls[c].local.bucket
           /\ calls[c].docId.imageUrl
                = DownloadUrl(storageRef(calls[d].local.bucket, calls[d].args.imagePath))


\* the handlers of the items page that have returned or thrown
Returned(op) == {h \in DOMAIN calls : calls[h].op = op /\ calls[h].pc = "done"}

\* C22: when addItem or updateItem fails after the handler uploaded a new image,
\* the handler has sent a deleteObject for that image, and whatever the storage
\* answered to it, the message shown is the error of addItem / updateItem, which
\* handleCreate also throws
C22_CleanupKeepsOriginalError ==
    \A h \in Returned("handleCreate") \cup Returned("handleSaveEdit") :
        (calls[h].local.uploadedImage # NoImage /\ calls[h].local.lib \notin {"none", "ok"})
            => /\ calls[h].local.cleanup # "none"
               /\ calls[h].local.message = calls[h].local.lib
               /\ calls[h].op = "handleCreate" => calls[h].result = calls[h].local.lib

\* handleCreate uploaded an image, addItem refused the name, the cleanup was
\* refused by the storage, and the handler threw the error of addItem
C22_Witness ==
    \E h \in Returned("handleCreate") :
        /\ calls[h].local.uploadedImage # NoImage
        /\ calls[h].local.lib = "item name empty"
        /\ calls[h].local.cleanup = "storage/unauthorized"
        /\ calls[h].local.message = "item name empty"
        /\ calls[h].result = "item name empty"


\* C23: whatever the count of referencing stocks was, a confirmed handleDelete
\* sends deleteItem, deleteItem refuses nothing over the references (its outcome is
\* the store's answer), and once the store has carried it out the item is gone and
\* the stocks are as they were
C23_CountIsAdvisory ==
    [][\A h \in DOMAIN calls :
          (/\ calls[h].op = "handleDelete"
           /\ calls[h].pc = "confirm"
           /\ calls'[h].pc # "confirm"
           /\ calls'[h].local.shouldDelete)
              => /\ calls'[h].local.lib \in StoreAnswers
                 /\ calls'[h].local.lib = "ok"
                       => /\ ~Exists(items', calls[h].args.item.id)
                          /\ stocks' = stocks]_vars

\* an item that a stock refers to was deleted after the confirmation
C23_Witness ==
    \E h \in DOMAIN calls :
        /\ calls[h].op = "handleDelete"
        /\ calls[h].local.refCount > 0
        /\ calls[h].local.shouldDelete
        /\ calls[h].local.lib = "ok"
        /\ ~Exists(items, calls[h].args.item.id)
        /\ \E s \in DOMAIN stocks : stocks[s].itemId = calls[h].args.item.id


\* C30: in every step of a handleSaveEdit, while its updateItem has not succeeded
\* the handler has sent no deleteObject for the previous image, the items are
\* left as they were and the object of the previous image stays where it is; and
\* once the handler has sent the deleteObject for the previous image, its
\* updateItem had succeeded carrying a new image reference or a cleared one
C30_PreviousImageDeletedAfterUpdate ==
    [][\A h \in DOMAIN calls' :
          (/\ calls'[h].op = "handleSaveEdit"
           /\ (h \notin DOMAIN calls \/ calls'[h] # calls[h]))
              => LET previous == {storageRef(getFirebaseStorage(undefined),
                                             calls'[h].args.editingItem.imagePath)}
                 IN  /\ calls'[h].local.lib # "ok"
                           => /\ calls'[h].local.oldImage = "none"
                              /\ items' = items
                              /\ storage'.objects \cap previous = storage.objects \cap previous
                     /\ calls'[h].local.oldImage # "none"
                           => /\ calls'[h].local.lib = "ok"
                              /\ \/ calls'[h].local.uploadedImage # NoImage
                                 \/ ~calls'[h].args.payload.keepExistingImage]_vars

\* an item got a new image, and after that update the previous image was deleted
C30_Witness ==
    \E h \in Returned("handleSaveEdit") :
        /\ calls[h].args.editingItem.imagePath = OldImagePath
        /\ calls[h].local.uploadedImage # NoImage
        /\ calls[h].local.lib = "ok"
        /\ calls[h].local.oldImage = "ok"
        /\ items[calls[h].args.payload.id].imagePath = calls[h].local.uploadedImage.imagePath
        /\ storageRef(getFirebaseStorage(undefined), OldImagePath) \notin storage.objects


\* C28: every updateStock that a submit of the edit form issued carries an integer
\* quantity of at least 1; and a submit of the form opened on a stock of quantity 0
\* with the quantity field as loaded ends in the alert, with no updateStock issued
C28_ModalQuantityAtLeastOne ==
    /\ \A c \in DOMAIN calls :
          (calls[c].op = "updateStock" /\ c > 1 /\ calls[c - 1].op = "handleSubmit")
             => /\ calls[c].args.updates.quantity # NotANumber
                /\ IsInteger(calls[c].args.updates.quantity)
                /\ calls[c].args.updates.quantity.int >= 1
    /\ \A h \in DOMAIN calls :
          (/\ calls[h].op = "handleSubmit"
           /\ calls[h].args.stock.quantity = Num(0)
           /\ calls[h].args.quantityText = StringOf(calls[h].args.stock.quantity))
             => /\ calls[h].result = "alert"
                /\ h < Len(calls) => calls[h + 1].op # "updateStock"

\* a stock went to quantity 0, and the form opened on it was submitted unchanged
\* and refused
C28_Witness ==
    \E h \in DOMAIN calls :
        /\ calls[h].op = "handleSubmit"
        /\ calls[h].args.stock.quantity = Num(0)
        /\ calls[h].args.quantityText = <<"0">>
        /\ calls[h].result = "alert"
        /\ Exists(stocks, Stock1)
        /\ stocks[Stock1].quantity = Num(0)


\* C24: the middleware lets a request for a path that is not public through only
\* when it carries the session cookie's value, and redirects it to /login when it
\* carries none or another value, as after a logout; the browser comes to hold
\* that value only by a login answered 200, and a login is answered 200 only when
\* its id, as the route reads it (trimmed), and its password equal the configured
\* ones; after a logout the browser holds it no more
C24_GateAdmitsMarkerOnly ==
    [][/\ \A c \in DOMAIN calls' :
             /\ (calls'[c].op = "middleware" /\ ~isPublicPath(calls'[c].args.pathname))
                   => IF calls'[c].args.authCookie = AUTH_COOKIE_VALUE
                      THEN calls'[c].result = "next"
                      ELSE calls'[c].result = "redirect /login"
             /\ (calls'[c].op = "login" /\ calls'[c].result = "200")
                   => /\ calls'[c].args.loginId # undefined
                      /\ trim(calls'[c].args.loginId) = env.AUTH_LOGIN_ID
                      /\ calls'[c].args.password = env.AUTH_LOGIN_PASSWORD
       /\ (cookie' = AUTH_COOKIE_VALUE /\ cookie # AUTH_COOKIE_VALUE)
             => /\ calls'[Len(calls')].op = "login"
                /\ calls'[Len(calls')].result = "200"
       /\ calls'[Len(calls')].op = "logout" => cookie' # AUTH_COOKIE_VALUE]_vars

\* a login with the configured credentials was answered 200, and the request for
\* a page that carried the cookie it set was let through
C24_Witness ==
    /\ Len(calls) = 2
    /\ calls[1].op = "login" /\ calls[1].result = "200"
    /\ calls[1].inFlight = 0
    /\ calls[2].op = "middleware"
    /\ calls[2].args.pathname = <<"/", "i", "t", "e", "m", "s">>
    /\ calls[2].args.authCookie = cookie
    /\ calls[2].result = "next"

====
